---- MODULE Spec2Model ----
(***************************************************************************)
(* A model of the article ingestion pipeline: the queue consumer, its run  *)
(* loop and its worker pool (src/src/consumer/consumer.py), the cache-aside*)
(* layer (src/src/utils/cache.py), the store writer                        *)
(* (src/src/database/mongodb.py) and the queue broker wrapper              *)
(* (src/src/database/redis_client.py).                                     *)
(*                                                                         *)
(* The durable store is the `articles` collection, a sequence of documents *)
(* in natural (insertion) order guarded by two unique indexes.  The        *)
(* volatile cache maps a hashed url to an optional entry.  Each call of    *)
(* process_single_article is a worker whose program counter walks the      *)
(* network calls of the method one at a time, so that workers interleave   *)
(* between any two calls as threads of the pool do.  The run loop of       *)
(* _consume_parallel is a process of its own beside the workers.           *)
(*                                                                         *)
(* The specifications share the variables:                                 *)
(*   Spec        tasks are handed to the pool from outside; no transport   *)
(*               fails and every task can be encoded;                      *)
(*   SpecFaults  the same with transport errors and unencodable tasks;     *)
(*   SpecLoop    the run loop draws the tasks from the three lists, which  *)
(*               may hold unencodable tasks and undecodable text;          *)
(*   SpecLoopFair  the run loop over well-formed tasks, with fairness;     *)
(*   SpecStats   each statistics update split at its read and its write;   *)
(*   SpecCache   calls of should_scrape alone, with and without force;     *)
(*   SpecScrape  one call of scrape_article and the store of its result;   *)
(*   SpecExtract the title and content extractors on a parsed page         *)
(*               (src/src/services/scraper.py);                            *)
(*   SpecPublish calls of publish_single_article on one publisher          *)
(*               (src/src/publisher/publisher.py);                         *)
(*   SpecBase    constructor calls through the Base metaclass              *)
(*               (src/src/utils/base.py).                                  *)
(***************************************************************************)
EXTENDS Integers, Sequences, FiniteSets, TLC

\* ------------------------------------------------------------------ bounds

\* Tasks handed to the pool in one run of the worker specification.
MaxDeliveries == 2

\* Transport errors (RedisError, PyMongoError) injected in one run of a
\* faulty environment.
MaxFaults == 1

\* Entries in the three queues when the run loop starts.
MaxQueued == 3

\* Calls of should_scrape in one run of the cache specification.
MaxCalls == 3

\* Calls of publish_single_article on one publisher.
MaxPublished == 3

\* Constructor calls of the classes whose metaclass is Base.
MaxConstructed == 3

\* The largest max_retries given to scrape_article.
MaxRetries == 3

\* The longest title element among those enumerated over the alphabet.
MaxTitleLen == 7


\* ------------------------------------------------------------------ values

\* ArticleConsumer.max_workers, the --workers option of the command line:
\* the runs modelled are those of a pool of one thread and of two.
PoolSizes == { 1, 2 }

\* Two of the classes whose metaclass is Base: the __init__ of RedisClient
\* raises when the broker does not answer, that of ArticleCache never does.
Classes == { "RedisClient", "ArticleCache" }

\* No class whose metaclass is Base has been constructed: _instances is
\* empty, nobody holds _lock (0), no object was created and no constructor
\* was called.
NoBase ==
    [instances |-> [cls \in Classes |-> << >>], lock |-> 0,
     created |-> << >>, calls |-> << >>]

\* Python's None for an absent string field.
None == "None"

\* An optional document: <<>> is None, <<d>> is the document d.
Nothing == << >>

Some(x) == << x >>

Min(S) == CHOOSE x \in S : \A y \in S : x <= y

\* hashlib.sha256(url).hexdigest(): a digest that is distinct for distinct
\* urls and is not the url.
Sha256(url) == << "sha256", url >>

\* Config.CACHE_PREFIX
CachePrefix == "article:"

\* ArticleCache._generate_cache_key
GenerateCacheKey(url) == << CachePrefix, Sha256(url) >>

Urls == { "u1", "u2" }

CacheKeys == { GenerateCacheKey(u) : u \in Urls }

\* A task as the consumer reads it: article_id, url, url_hash (None when
\* the task carries none), user_id, and whether one of its pass-through
\* fields holds a value the store driver cannot encode (the driver then
\* raises an error that is no PyMongoError).
Task(a, u, h, usr, p) ==
    [article_id |-> a, url |-> u, url_hash |-> h, user_id |-> usr, poison |-> p]

Tasks ==
    { Task("a1", "u1", "h1", "alice", FALSE),
      Task("a1", "u1", "h1", "bob", FALSE),
      Task("a2", "u1", "h1", "alice", FALSE),
      Task("a1", "u2", None, "alice", FALSE),
      Task("a2", None, None, "bob", FALSE),
      Task("a2", "u1", "h1", "bob", TRUE) }

\* What scrape_article can return to the consumer: its status with the
\* title and content it extracted.
ScrapeResults ==
    { [status |-> "success", title |-> "T", content |-> "C"],
      [status |-> "partial", title |-> None, content |-> "C"],
      [status |-> "failed", title |-> None, content |-> None] }

NoResult == [status |-> "unknown", title |-> None, content |-> None]

StatNames == { "processed", "successful", "failed", "duplicates", "cached" }

\* ------------------------------------------------------------------ state

VARIABLES
    store,          \* the articles collection, in natural order
    cache,          \* the volatile cache: cache key -> optional entry
    cacheEnabled,   \* Config.CACHE_ENABLED
    stats,          \* ArticleConsumer.stats
    work,           \* the calls of process_single_article, in submit order
    faulty,         \* whether the environment may fail (transport errors,
                    \* tasks the store driver cannot encode)
    faults,         \* transport errors injected so far
    queues,         \* the three broker lists: queue name -> entries in push order
    pool,           \* tasks submitted to the executor and not yet started
    loop,           \* the locals of _consume_parallel and self.running
    max_workers,    \* ArticleConsumer.max_workers
    submitted,      \* every entry submitted to the executor with the number
                    \* of its batch, in submit order
    scrape,         \* the locals of a call of scrape_article, with what the
                    \* target answered and how long the call slept
    extract,        \* the parsed page given to _extract_title and
                    \* _extract_content, and what they returned
    publisher,      \* ArticlePublisher.seen_hashes and the calls of
                    \* publish_single_article made on the publisher
    singletons      \* Base._instances, Base._lock and the constructor
                    \* calls of the classes whose metaclass is Base

vars == << store, cache, cacheEnabled, stats, work, faulty, faults,
           queues, pool, loop, max_workers, submitted, scrape, extract,
           publisher, singletons >>

\* The state outside the queue consumer and the scraper's retry loop.
others == << extract, publisher, singletons >>

\* The state of the queue consumer's run loop.
loopVars == << queues, pool, loop, max_workers, submitted >>

\* ------------------------------------------------------------------ store

\* A mutant of the unique indexes: only article_id is unique.
DuplicateKeyIdOnly(st, doc, skip) ==
    \E i \in (1 .. Len(st)) \ { skip } : st[i].article_id = doc.article_id

\* The unique indexes idx_article_id_unique and idx_url_unique: would doc
\* collide with a document of st other than the one at index skip?
DuplicateKey(st, doc, skip) ==
    \E i \in (1 .. Len(st)) \ { skip } :
        \/ st[i].article_id = doc.article_id
        \/ st[i].url = doc.url

\* An insert that replaces the documents it collides with.
InsertArticleOverwrites(st, doc, fault) ==
    [ok |-> ~fault,
     store |-> IF fault THEN st
               ELSE [i \in 1 .. Len(st) |->
                        IF st[i].article_id = doc.article_id \/ st[i].url = doc.url
                        THEN doc ELSE st[i]]]

\* ArticleDatabase.insert_article: True when inserted; DuplicateKeyError and
\* any other PyMongoError (fault) give False and leave the collection alone.
InsertArticle(st, doc, fault) ==
    IF fault \/ DuplicateKey(st, doc, 0)
    THEN [ok |-> FALSE, store |-> st]
    ELSE [ok |-> TRUE, store |-> Append(st, doc)]

\* $set: the fields of patch replace those of doc.
SetFields(doc, patch) ==
    [f \in DOMAIN doc |-> IF f \in DOMAIN patch THEN patch[f] ELSE doc[f]]

\* ArticleDatabase.update_article: update_one on the first document with the
\* article_id.  updated_at is always set to the current time, so a matched
\* document is a modified one.  No match gives modified_count = 0, a unique
\* index violation gives DuplicateKeyError, both reported as False.
UpdateArticle(st, article_id, patch, fault) ==
    LET idx == { i \in 1 .. Len(st) : st[i].article_id = article_id } IN
    IF fault \/ idx = { }
    THEN [ok |-> FALSE, store |-> st]
    ELSE LET i == Min(idx)
             new == SetFields(st[i], patch)
         IN  IF DuplicateKey(st, new, i)
             THEN [ok |-> FALSE, store |-> st]
             ELSE [ok |-> TRUE, store |-> [st EXCEPT ![i] = new]]

\* ArticleDatabase.get_article: find_one by article_id; a PyMongoError
\* (fault) gives None.
GetArticle(st, article_id, fault) ==
    LET idx == { i \in 1 .. Len(st) : st[i].article_id = article_id } IN
    IF fault \/ idx = { } THEN Nothing ELSE Some(st[Min(idx)])

\* ------------------------------------------------------------------ cache

\* A mutant of check_mongodb_cache: it never finds a document.
CheckMongodbCacheMiss(st, enabled, url_hash, fault) == Nothing

\* ArticleCache.check_mongodb_cache: find_one by url_hash, whatever the
\* document's status or owner; any exception (fault) gives None.
CheckMongodbCache(st, enabled, url_hash, fault) ==
    LET idx == { i \in 1 .. Len(st) : st[i].url_hash = url_hash } IN
    IF ~enabled \/ fault \/ idx = { } THEN Nothing ELSE Some(st[Min(idx)])

\* A mutant of check_redis_cache: it never finds an entry.
CheckRedisCacheMiss(c, enabled, url, fault) == Nothing

\* A check_redis_cache whose failed read still answers with the entry.
CheckRedisCacheFaultHits(c, enabled, url, fault) ==
    IF ~enabled THEN Nothing ELSE c[GenerateCacheKey(url)]

\* ArticleCache.check_redis_cache: the entry under the url's key; any
\* exception (fault) gives None.
CheckRedisCache(c, enabled, url, fault) ==
    IF ~enabled \/ fault THEN Nothing ELSE c[GenerateCacheKey(url)]

\* The projection set_redis_cache stores: no content.
CacheData(article_data) ==
    [article_id |-> article_data.article_id,
     url |-> article_data.url,
     title |-> article_data.title,
     scrape_status |-> article_data.scrape_status]

\* A set_redis_cache that stores nothing.
SetRedisCacheSkipped(c, enabled, url, article_data, fault) == c

\* ArticleCache.set_redis_cache: setex of the projection under the url's
\* key; a failure (fault) is swallowed and the cache is left alone.
SetRedisCache(c, enabled, url, article_data, fault) ==
    IF ~enabled \/ fault
    THEN c
    ELSE [c EXCEPT ![GenerateCacheKey(url)] = Some(CacheData(article_data))]

\* ------------------------------------------------------------------ workers

\* The url_hash the consumer passes to should_scrape:
\* task_data.get('url_hash', '').
TaskUrlHash(t) == IF t.url_hash = None THEN "" ELSE t.url_hash

\* The locals of a call of process_single_article.
\* The last fields record what the call has met and done: the scraper calls
\* (fetches), the statistics it incremented (log), the store writes it made
\* (storeCalls), whether the cache held an entry for its url when it looked
\* (sawCached), whether the store held a document with its url_hash when it
\* looked (sawStored), the backends should_scrape consulted (lookups), the
\* force argument of should_scrape (force: the consumer never sets it),
\* whether its except clause caught an exception (raised), the
\* status of its article's document when it began (found), and the calls
\* that had returned when it began (after).
NewWork(t) ==
    [task |-> t, pc |-> "new", should_scrape |-> TRUE, cache_source |-> None,
     mongodb_data |-> Nothing, existing |-> Nothing, cached_data |-> Nothing,
     scrape_result |-> NoResult, success |-> FALSE, todo |-> << >>,
     fetches |-> 0, log |-> << >>, storeCalls |-> << >>, sawCached |-> FALSE,
     raised |-> FALSE, found |-> "absent", after |-> { },
     lock |-> FALSE, read |-> 0,
     force |-> FALSE, sawStored |-> FALSE, lookups |-> << >>]

Running == { d \in 1 .. Len(work) : work[d].pc # "done" }

\* The choices of an external call: it works, or (in a faulty environment
\* with budget left) it raises a transport error.
FaultChoices == IF faulty /\ faults < MaxFaults THEN { FALSE, TRUE } ELSE { FALSE }

Count(fault) == IF fault THEN faults + 1 ELSE faults

\* A call of process_single_article up to its first external call: a task
\* with no url returns False at once, outside the try block, so it counts
\* nothing.
Begin(t) ==
    LET existing == GetArticle(store, t.article_id, FALSE) IN
    [NewWork(t) EXCEPT
        !.pc = IF t.url = None THEN "done" ELSE "should_scrape",
        !.found = IF existing = Nothing THEN "absent" ELSE existing[1].status,
        !.after = { d \in 1 .. Len(work) : work[d].pc = "done" }]

\* executor.submit(self.process_single_article, task) with a free thread in
\* the pool: the call starts.
Deliver(t) ==
    /\ loop.pc = "none"
    /\ Len(work) < MaxDeliveries
    /\ Cardinality(Running) < max_workers
    /\ t.poison => faulty
    /\ work' = Append(work, Begin(t))
    /\ UNCHANGED << others, scrape, store, cache, cacheEnabled, stats, faulty, faults, loopVars >>

\* A should_scrape that does not look at its force argument.
BypassIgnoresForce(force, enabled) == ~enabled

\* `if force` and `if not self.enabled`: should_scrape answers "scrape"
\* before any lookup.
Bypass(force, enabled) == force \/ ~enabled

\* A volatile lookup that takes the entry out of the cache as it reads it.
ShouldScrapeRedisConsumes(d) ==
    /\ d \in 1 .. Len(work)
    /\ work[d].pc = "should_scrape"
    /\ \E fault \in (IF Bypass(work[d].force, cacheEnabled)
                     THEN { FALSE } ELSE FaultChoices) :
         LET w == work[d]
             redis_data == CheckRedisCache(cache, cacheEnabled, w.task.url, fault)
             seen == [w EXCEPT !.sawCached =
                         cacheEnabled /\ cache[GenerateCacheKey(w.task.url)] # Nothing,
                               !.lookups = << "redis" >>]
         IN  /\ faults' = Count(fault)
             /\ work' = [work EXCEPT ![d] =
                   IF Bypass(w.force, cacheEnabled)
                   THEN [w EXCEPT !.pc = "get_article", !.should_scrape = TRUE]
                   ELSE IF redis_data # Nothing
                   THEN [seen EXCEPT !.pc = "hit_get", !.should_scrape = FALSE,
                                     !.cache_source = "redis"]
                   ELSE [seen EXCEPT !.pc = "mongo_check"]]
    /\ cache' = IF Bypass(work[d].force, cacheEnabled) THEN cache
                ELSE [cache EXCEPT ![GenerateCacheKey(work[d].task.url)] = Nothing]
    /\ UNCHANGED << others, scrape, store, cacheEnabled, stats, faulty, loopVars >>

\* should_scrape up to its volatile lookup: force and a disabled cache answer
\* "scrape"; a hit answers "do not scrape" from redis; a miss goes on to
\* the durable store.
ShouldScrapeRedis(d) ==
    /\ d \in 1 .. Len(work)
    /\ work[d].pc = "should_scrape"
    /\ \E fault \in (IF Bypass(work[d].force, cacheEnabled)
                     THEN { FALSE } ELSE FaultChoices) :
         LET w == work[d]
             redis_data == CheckRedisCache(cache, cacheEnabled, w.task.url, fault)
             seen == [w EXCEPT !.sawCached =
                         cacheEnabled /\ cache[GenerateCacheKey(w.task.url)] # Nothing,
                               !.lookups = << "redis" >>]
         IN  /\ faults' = Count(fault)
             /\ work' = [work EXCEPT ![d] =
                   IF Bypass(w.force, cacheEnabled)
                   THEN [w EXCEPT !.pc = "get_article", !.should_scrape = TRUE]
                   ELSE IF redis_data # Nothing
                   THEN [seen EXCEPT !.pc = "hit_get", !.should_scrape = FALSE,
                                     !.cache_source = "redis"]
                   ELSE [seen EXCEPT !.pc = "mongo_check"]]
    /\ UNCHANGED << others, scrape, store, cache, cacheEnabled, stats, faulty, loopVars >>

\* should_scrape after a volatile miss: the lookup by url_hash in the store.
ShouldScrapeMongo(d) ==
    /\ d \in 1 .. Len(work)
    /\ work[d].pc = "mongo_check"
    /\ \E fault \in FaultChoices :
         LET w == work[d]
             mongodb_data ==
                 CheckMongodbCache(store, cacheEnabled, TaskUrlHash(w.task), fault)
             seen == [w EXCEPT !.sawStored =
                         \E i \in 1 .. Len(store) :
                             store[i].url_hash = TaskUrlHash(w.task),
                               !.lookups = Append(@, "mongodb")]
         IN  /\ faults' = Count(fault)
             /\ work' = [work EXCEPT ![d] =
                   IF mongodb_data # Nothing
                   THEN [seen EXCEPT !.pc = "backfill", !.mongodb_data = mongodb_data]
                   ELSE [seen EXCEPT !.pc = "get_article", !.should_scrape = TRUE]]
    /\ UNCHANGED << others, scrape, store, cache, cacheEnabled, stats, faulty, loopVars >>

\* should_scrape on a durable hit: backfill the volatile cache and answer
\* "do not scrape" from mongodb.
ShouldScrapeBackfill(d) ==
    /\ d \in 1 .. Len(work)
    /\ work[d].pc = "backfill"
    /\ \E fault \in FaultChoices :
         LET w == work[d] IN
         /\ faults' = Count(fault)
         /\ cache' = SetRedisCache(cache, cacheEnabled, w.task.url,
                                   w.mongodb_data[1], fault)
         /\ work' = [work EXCEPT ![d] =
               [w EXCEPT !.pc = "hit_get", !.should_scrape = FALSE,
                         !.cache_source = "mongodb", !.mongodb_data = Nothing]]
    /\ UNCHANGED << others, scrape, store, cacheEnabled, stats, faulty, loopVars >>

\* An outcome without the finally clause: 'processed' is not counted.
OutcomeWithoutFinally(w, names) == [w EXCEPT !.pc = "stats", !.todo = names]

\* The statistics a call still has to increment, in order, ending with the
\* finally clause's 'processed'.
Outcome(w, names) == [w EXCEPT !.pc = "stats", !.todo = names \o << "processed" >>]

\* A mutant of the except clause: the exception is not counted.
ExceptUncounted(w) == Outcome([w EXCEPT !.raised = TRUE], << >>)

\* The except clause of process_single_article: count 'failed'.
Except(w) == Outcome([w EXCEPT !.raised = TRUE], << "failed" >>)

\* Cache-hit path: self.database.get_article(article_id).
HitGetArticle(d) ==
    /\ d \in 1 .. Len(work)
    /\ work[d].pc = "hit_get"
    /\ \E fault \in FaultChoices :
         LET w == work[d]
             existing_article == GetArticle(store, w.task.article_id, fault)
         IN  /\ faults' = Count(fault)
             /\ work' = [work EXCEPT ![d] =
                   [w EXCEPT !.existing = existing_article,
                             !.pc = IF existing_article # Nothing
                                    THEN "hit_update" ELSE "hit_recheck"]]
    /\ UNCHANGED << others, scrape, store, cache, cacheEnabled, stats, faulty, loopVars >>

\* Cache-hit path, the article exists: update_article(article_id,
\* {'status': 'completed'}); its result is not looked at.
HitUpdate(d) ==
    /\ d \in 1 .. Len(work)
    /\ work[d].pc = "hit_update"
    /\ \E fault \in FaultChoices :
         LET w == work[d]
             r == UpdateArticle(store, w.task.article_id,
                                [status |-> "completed"], fault)
         IN  /\ faults' = Count(fault)
             /\ store' = r.store
             /\ work' = [work EXCEPT ![d] =
                   Outcome([w EXCEPT !.existing = Nothing,
                                     !.storeCalls = Append(@, "update")],
                           << "cached", "successful" >>)]
    /\ UNCHANGED << others, scrape, cache, cacheEnabled, stats, faulty, loopVars >>

\* Cache-hit path, no article: self.cache.check_redis_cache(url) again.
HitRecheck(d) ==
    /\ d \in 1 .. Len(work)
    /\ work[d].pc = "hit_recheck"
    /\ \E fault \in FaultChoices :
         LET w == work[d] IN
         /\ faults' = Count(fault)
         /\ work' = [work EXCEPT ![d] =
               [w EXCEPT !.pc = "hit_insert",
                         !.cached_data =
                             CheckRedisCache(cache, cacheEnabled, w.task.url, fault)]]
    /\ UNCHANGED << others, scrape, store, cache, cacheEnabled, stats, faulty, loopVars >>

\* The document the cache-hit path inserts: completed, with the cached title.
CachedArticleData(t, cached_data) ==
    [article_id |-> t.article_id, url |-> t.url, url_hash |-> t.url_hash,
     user_id |-> t.user_id, status |-> "completed",
     title |-> IF cached_data # Nothing THEN cached_data[1].title ELSE None,
     content |-> None, scrape_status |-> None]

\* Cache-hit path, no article: insert_article(article_data); its result is
\* not looked at.  A task the driver cannot encode raises into the except
\* clause.
HitInsert(d) ==
    /\ d \in 1 .. Len(work)
    /\ work[d].pc = "hit_insert"
    /\ \E fault \in FaultChoices :
         LET w == work[d]
             called == [w EXCEPT !.cached_data = Nothing,
                                 !.storeCalls = Append(@, "insert")]
             r == InsertArticle(store, CachedArticleData(w.task, w.cached_data), fault)
         IN  IF w.task.poison
             THEN /\ work' = [work EXCEPT ![d] = Except(called)]
                  /\ UNCHANGED << others, scrape, store, faults >>
             ELSE /\ faults' = Count(fault)
                  /\ store' = r.store
                  /\ work' = [work EXCEPT ![d] =
                        Outcome(called, << "cached", "successful" >>)]
    /\ UNCHANGED << others, scrape, cache, cacheEnabled, stats, faulty, loopVars >>

Terminal == { "completed", "failed" }

\* Scrape path: get_article(article_id); an article already completed or
\* failed is counted a duplicate and skipped.  Otherwise the call goes on to
\* self.scraper.scrape_article(url), which touches no shared state: its
\* result is drawn here.
GetExisting(d) ==
    /\ d \in 1 .. Len(work)
    /\ work[d].pc = "get_article"
    /\ \E fault \in FaultChoices, scrape_result \in ScrapeResults :
         LET w == work[d]
             existing_article == GetArticle(store, w.task.article_id, fault)
         IN  /\ faults' = Count(fault)
             /\ work' = [work EXCEPT ![d] =
                   IF existing_article # Nothing
                      /\ existing_article[1].status \in Terminal
                   THEN Outcome(w, << "duplicates" >>)
                   ELSE [w EXCEPT !.existing = existing_article,
                                  !.scrape_result = scrape_result,
                                  !.fetches = @ + 1, !.pc = "store"]]
    /\ UNCHANGED << others, scrape, store, cache, cacheEnabled, stats, faulty, loopVars >>

\* A mapping that takes a partial scrape for a completed article.
ArticleStatusPartialCompleted(scrape_status) ==
    IF scrape_status \in { "success", "partial" } THEN "completed" ELSE "failed"

\* article_status from the scrape status.
ArticleStatus(scrape_status) ==
    IF scrape_status = "success" THEN "completed" ELSE "failed"

\* The article_data of the scrape path; url_hash is among its fields only
\* when the task carries one.
ArticleData(t, scrape_result) ==
    LET base == [article_id |-> t.article_id, url |-> t.url,
                 user_id |-> t.user_id,
                 status |-> ArticleStatus(scrape_result.status),
                 title |-> scrape_result.title,
                 content |-> scrape_result.content,
                 scrape_status |-> scrape_result.status]
    IN  IF t.url_hash = None THEN base ELSE base @@ [url_hash |-> t.url_hash]

\* The document insert_one stores: a field the data does not carry is absent.
Document(article_data) ==
    IF "url_hash" \in DOMAIN article_data
    THEN article_data
    ELSE article_data @@ [url_hash |-> None]

\* Scrape path: update the existing article or insert a new one.
StoreResult(d) ==
    /\ d \in 1 .. Len(work)
    /\ work[d].pc = "store"
    /\ \E fault \in FaultChoices :
         LET w == work[d]
             article_data == ArticleData(w.task, w.scrape_result)
             r == IF w.existing # Nothing
                  THEN UpdateArticle(store, w.task.article_id, article_data, fault)
                  ELSE InsertArticle(store, Document(article_data), fault)
             called == [w EXCEPT !.existing = Nothing,
                                 !.storeCalls = Append(@,
                                     IF w.existing # Nothing THEN "update" ELSE "insert")]
         IN  IF w.task.poison
             THEN /\ work' = [work EXCEPT ![d] =
                        Except([called EXCEPT !.scrape_result = NoResult])]
                  /\ UNCHANGED << others, scrape, store, faults >>
             ELSE /\ faults' = Count(fault)
                  /\ store' = r.store
                  /\ work' = [work EXCEPT ![d] =
                        IF r.ok
                        THEN [called EXCEPT !.success = TRUE, !.pc = "set_cache"]
                        ELSE Outcome([called EXCEPT !.scrape_result = NoResult],
                                     << "failed" >>)]
    /\ UNCHANGED << others, scrape, cache, cacheEnabled, stats, faulty, loopVars >>

\* Scrape path, stored: set_redis_cache(url, article_data), then the
\* outcome by the scrape status.
CacheResult(d) ==
    /\ d \in 1 .. Len(work)
    /\ work[d].pc = "set_cache"
    /\ \E fault \in (IF cacheEnabled THEN FaultChoices ELSE { FALSE }) :
         LET w == work[d]
             article_data == Document(ArticleData(w.task, w.scrape_result))
         IN  /\ faults' = Count(fault)
             /\ cache' = SetRedisCache(cache, cacheEnabled, w.task.url,
                                       article_data, fault)
             /\ work' = [work EXCEPT ![d] =
                   Outcome([w EXCEPT !.scrape_result = NoResult],
                           IF w.scrape_result.status = "success"
                           THEN << "successful" >> ELSE << "failed" >>)]
    /\ UNCHANGED << others, scrape, store, cacheEnabled, stats, faulty, loopVars >>

\* ArticleConsumer._update_stats: one increment under stats_lock.
UpdateStats(s, stat_name) == [s EXCEPT ![stat_name] = @ + 1]

\* All the increments of names, each one _update_stats call.
RECURSIVE UpdateAll(_, _)
UpdateAll(s, names) ==
    IF names = << >> THEN s ELSE UpdateAll(UpdateStats(s, Head(names)), Tail(names))

\* The _update_stats calls of a worker's outcome, the finally clause's
\* included; then the call returns.
StatStep(d) ==
    /\ d \in 1 .. Len(work)
    /\ work[d].pc = "stats"
    /\ LET w == work[d] IN
       /\ stats' = UpdateAll(stats, w.todo)
       /\ work' = [work EXCEPT ![d] =
             [w EXCEPT !.todo = << >>, !.log = w.todo, !.pc = "done"]]
    /\ UNCHANGED << others, scrape, store, cache, cacheEnabled, faulty, faults, loopVars >>

\* stats_lock taken by everybody who asks.
StatsLockAlwaysFree == TRUE

\* threading.Lock: stats_lock can be acquired when no thread holds it.
StatsLockFree == \A e \in 1 .. Len(work) : ~ work[e].lock

\* One _update_stats call, first half: `with self.stats_lock` acquires the
\* lock and `self.stats[stat_name] += increment` reads the counter.
LockAndRead(d) ==
    /\ d \in 1 .. Len(work)
    /\ work[d].pc = "stats"
    /\ StatsLockFree
    /\ work' = [work EXCEPT ![d] =
          [@ EXCEPT !.lock = TRUE, !.read = stats[Head(work[d].todo)],
                    !.pc = "stats_write"]]
    /\ UNCHANGED << others, scrape, store, cache, cacheEnabled, stats, faulty, faults, loopVars >>

\* One _update_stats call, second half: the sum is written back and leaving
\* the `with` block releases the lock; after the last call of the outcome
\* process_single_article returns.
WriteAndUnlock(d) ==
    /\ d \in 1 .. Len(work)
    /\ work[d].pc = "stats_write"
    /\ LET w == work[d]
           stat_name == Head(w.todo) IN
       /\ stats' = [stats EXCEPT ![stat_name] = w.read + 1]
       /\ work' = [work EXCEPT ![d] =
             [w EXCEPT !.lock = FALSE, !.read = 0,
                       !.todo = Tail(w.todo),
                       !.log = Append(w.log, stat_name),
                       !.pc = IF Tail(w.todo) = << >> THEN "done" ELSE "stats"]]
    /\ UNCHANGED << others, scrape, store, cache, cacheEnabled, faulty, faults, loopVars >>

\* The TTL of a cache entry runs out.
Expire(k) ==
    /\ k \in CacheKeys
    /\ cache[k] # Nothing
    /\ cache' = [cache EXCEPT ![k] = Nothing]
    /\ UNCHANGED << others, scrape, store, cacheEnabled, stats, work, faulty, faults, loopVars >>

\* ------------------------------------------------------------------ queues

\* Config.REDIS_QUEUE_HIGH, REDIS_QUEUE_MEDIUM, REDIS_QUEUE_LOW, in the
\* order _consume_parallel hands them to pop_from_queues.
QueueNames == << "high", "medium", "low" >>

QueueSet == { QueueNames[i] : i \in 1 .. Len(QueueNames) }

\* A list entry: the task it encodes, whether its text is JSON at all, and
\* where push_to_queue put it (its list and its position in push order).
Entry(t, json, q, n) == [task |-> t, json |-> json, queue |-> q, n |-> n]

\* What a list can hold when the run loop starts: an ordinary task, a task
\* the store driver cannot encode, and text that is not JSON.
EntryKinds ==
    { [task |-> Task("a1", "u1", "h1", "alice", FALSE), json |-> TRUE],
      [task |-> Task("a2", "u1", "h1", "bob", TRUE), json |-> TRUE],
      [task |-> Task("a2", None, None, "bob", FALSE), json |-> FALSE] }

\* A mutant of BLPOP: the last list that is not empty.
LastNonEmpty(qs) ==
    LET idx == { i \in 1 .. Len(QueueNames) : qs[QueueNames[i]] # << >> } IN
    IF idx = { } THEN None
    ELSE QueueNames[CHOOSE i \in idx : \A j \in idx : j <= i]

\* BLPOP over the lists in priority order: the first list that is not empty.
FirstNonEmpty(qs) ==
    LET idx == { i \in 1 .. Len(QueueNames) : qs[QueueNames[i]] # << >> } IN
    IF idx = { } THEN None ELSE QueueNames[Min(idx)]

\* RedisClient.pop_from_queues: the head of the first non-empty list leaves
\* the list and is decoded.  A RedisError (fault) and a timeout on empty
\* lists give None; so does text that json.loads rejects, after it has left
\* its list.
PopFromQueues(qs, fault) ==
    LET q == FirstNonEmpty(qs) IN
    IF fault \/ q = None
    THEN [queues |-> qs, data |-> Nothing]
    ELSE [queues |-> [qs EXCEPT ![q] = Tail(@)],
          data |-> IF Head(qs[q]).json THEN Some(Head(qs[q])) ELSE Nothing]

\* ------------------------------------------------------------------ run loop

\* max_iterations = None: a continuous run.
NoLimit == -1

\* The max_iterations a run is given.
Limits == { NoLimit, 0, 2 }

\* The limit test that never answers yes.
LimitNeverReached(max_iterations, iterations) == FALSE

\* `if max_iterations and iterations >= max_iterations`: None and 0 are
\* both falsy.
LimitReached(max_iterations, iterations) ==
    max_iterations # NoLimit /\ max_iterations # 0 /\ iterations >= max_iterations

\* batch_size = self.max_workers * 2
BatchSize == max_workers * 2

\* The run loop before consume is called.
Idle ==
    [pc |-> "idle", running |-> FALSE, max_iterations |-> NoLimit,
     iterations |-> 0, tasks |-> << >>, range |-> 0, batches |-> 0,
     reason |-> None, reported |-> << >>]

\* consume(max_iterations) with use_threading: _consume_parallel up to its
\* while loop.
Consume(max_iterations) ==
    /\ loop.pc = "idle"
    /\ loop' = [loop EXCEPT !.pc = "while", !.running = TRUE,
                            !.max_iterations = max_iterations, !.iterations = 0]
    /\ UNCHANGED << others, scrape, store, cache, cacheEnabled, stats, work, faulty, faults,
                    queues, pool, max_workers, submitted >>

\* The head of the while loop: leave when max_iterations is reached,
\* otherwise start a batch.
While ==
    /\ loop.pc = "while"
    /\ loop.running
    /\ loop' = IF LimitReached(loop.max_iterations, loop.iterations)
               THEN [loop EXCEPT !.pc = "exit", !.reason = "max_iterations"]
               ELSE [loop EXCEPT !.pc = "drain", !.tasks = << >>, !.range = 0]
    /\ UNCHANGED << others, scrape, store, cache, cacheEnabled, stats, work, faulty, faults,
                    queues, pool, max_workers, submitted >>

\* One round of `for _ in range(batch_size)`: pop; a task joins the batch,
\* None ends the drain, and so do the end of the range and max_iterations.
Drain ==
    /\ loop.pc = "drain"
    /\ \E fault \in FaultChoices :
         LET r == PopFromQueues(queues, fault)
             iterations == loop.iterations + 1
             range == loop.range + 1
         IN  /\ faults' = Count(fault)
             /\ queues' = r.queues
             /\ loop' = IF r.data # Nothing
                        THEN [loop EXCEPT
                                !.tasks = Append(@, r.data[1]),
                                !.iterations = iterations,
                                !.range = range,
                                !.pc = IF range = BatchSize
                                          \/ LimitReached(loop.max_iterations, iterations)
                                       THEN "batch" ELSE "drain"]
                        ELSE [loop EXCEPT !.pc = "batch"]
    /\ UNCHANGED << others, scrape, store, cache, cacheEnabled, stats, work, faulty,
                    pool, max_workers, submitted >>

\* `if not tasks`: a bounded run stops ("No more tasks"), a continuous run
\* sleeps and goes round again.
EmptyBatch ==
    /\ loop.pc = "batch"
    /\ loop.tasks = << >>
    /\ loop' = IF loop.max_iterations # NoLimit
               THEN [loop EXCEPT !.pc = "exit", !.reason = "no_tasks"]
               ELSE [loop EXCEPT !.pc = "while"]
    /\ UNCHANGED << others, scrape, store, cache, cacheEnabled, stats, work, faulty, faults,
                    queues, pool, max_workers, submitted >>

\* The size of the batch taken for the number of workers it keeps busy.
CurrentWorkersIsBatchSize(tasks) == Len(tasks)

\* min(len(tasks), self.max_workers)
CurrentWorkers(tasks) == IF Len(tasks) < max_workers THEN Len(tasks) ELSE max_workers

\* The update of concurrent_peak under stats_lock.
UpdatePeak(s, current_workers) ==
    IF current_workers > s.concurrent_peak
    THEN [s EXCEPT !.concurrent_peak = current_workers]
    ELSE s

\* A batch with tasks: record the peak and submit every task to the
\* executor, in batch order.
Dispatch ==
    /\ loop.pc = "batch"
    /\ loop.tasks # << >>
    /\ stats' = UpdatePeak(stats, CurrentWorkers(loop.tasks))
    /\ pool' = pool \o loop.tasks
    /\ submitted' = submitted \o
           [i \in 1 .. Len(loop.tasks) |->
               [entry |-> loop.tasks[i], batch |-> loop.batches + 1]]
    /\ loop' = [loop EXCEPT !.pc = "wait", !.tasks = << >>, !.batches = @ + 1]
    /\ UNCHANGED << others, scrape, store, cache, cacheEnabled, work, faulty, faults,
                    queues, max_workers >>

\* An executor that starts a submitted task whether or not a thread is free.
StartUnbounded ==
    /\ loop.pc # "none"
    /\ pool # << >>
    /\ work' = Append(work, Begin(Head(pool).task))
    /\ pool' = Tail(pool)
    /\ UNCHANGED << others, scrape, store, cache, cacheEnabled, stats, faulty, faults,
                    queues, loop, max_workers, submitted >>

\* A free thread of the executor takes the oldest submitted task and calls
\* process_single_article on it.
Start ==
    /\ loop.pc # "none"
    /\ pool # << >>
    /\ Cardinality(Running) < max_workers
    /\ work' = Append(work, Begin(Head(pool).task))
    /\ pool' = Tail(pool)
    /\ UNCHANGED << others, scrape, store, cache, cacheEnabled, stats, faulty, faults,
                    queues, loop, max_workers, submitted >>

\* The wait without its barrier: the loop goes round while tasks of the batch
\* are still queued in the executor or running.
WaitNoBarrier ==
    /\ loop.pc = "wait"
    /\ loop' = [loop EXCEPT !.pc = "while"]
    /\ UNCHANGED << others, scrape, store, cache, cacheEnabled, stats, work, faulty, faults,
                    queues, pool, max_workers, submitted >>

\* `for future in as_completed(futures)` has seen every future of the batch;
\* the progress line is printed and the loop goes round again.
Wait ==
    /\ loop.pc = "wait"
    /\ pool = << >>
    /\ Running = { }
    /\ loop' = [loop EXCEPT !.pc = "while"]
    /\ UNCHANGED << others, scrape, store, cache, cacheEnabled, stats, work, faulty, faults,
                    queues, pool, max_workers, submitted >>

\* KeyboardInterrupt in the main thread, wherever the loop is.
Interrupt ==
    /\ loop.pc \in { "while", "drain", "batch", "wait" }
    /\ loop' = [loop EXCEPT !.pc = "exit", !.reason = "interrupt", !.tasks = << >>]
    /\ UNCHANGED << others, scrape, store, cache, cacheEnabled, stats, work, faulty, faults,
                    queues, pool, max_workers, submitted >>

\* Leaving the block without waiting for the executor.
ReturnAtOnce ==
    /\ loop.pc = "exit"
    /\ loop' = [loop EXCEPT !.pc = "stopped", !.running = FALSE,
                            !.reported = Some(stats)]
    /\ UNCHANGED << others, scrape, store, cache, cacheEnabled, stats, work, faulty, faults,
                    queues, pool, max_workers, submitted >>

\* Leaving the `with ThreadPoolExecutor` block waits for every submitted
\* task; then the finally clause clears self.running and _log_stats reports
\* the statistics.
Return ==
    /\ loop.pc = "exit"
    /\ pool = << >>
    /\ Running = { }
    /\ loop' = [loop EXCEPT !.pc = "stopped", !.running = FALSE,
                            !.reported = Some(stats)]
    /\ UNCHANGED << others, scrape, store, cache, cacheEnabled, stats, work, faulty, faults,
                    queues, pool, max_workers, submitted >>

\* ------------------------------------------------------------------ scraper

RECURSIVE Pow2(_)
Pow2(n) == IF n = 0 THEN 1 ELSE 2 * Pow2(n - 1)

\* A backoff that does not grow.
WaitTimeFixed(attempt) == 2

\* wait_time = 2 ** attempt
WaitTime(attempt) == Pow2(attempt)

\* A scraper that gives up at the first error.
CanRetryNever(attempt, max_retries) == FALSE

\* `attempt < max_retries - 1`: another attempt is left.
CanRetry(attempt, max_retries) == attempt < max_retries - 1

\* A scraper that retries on every status but 200.
RetryStatusAny(status_code) == status_code # 200

\* `response.status_code == 403`: the status that is tried again.
RetryStatus(status_code) == status_code = 403

\* f"HTTP {response.status_code}"
HttpError(status_code) ==
    CASE status_code = 403 -> "HTTP 403"
      [] status_code = 404 -> "HTTP 404"
      [] status_code = 500 -> "HTTP 500"
      [] OTHER -> "HTTP 200"

\* What a request can raise: requests' Timeout and ConnectionError, another
\* RequestException, and any other Exception (of the client, or of the
\* parser once the page is there).
Exceptions == { "Timeout", "ConnectionError", "RequestException", "Exception" }

\* The except clauses without the last one.
HandlerWithoutCatchAll(kind) ==
    CASE kind = "Timeout" -> "Request timeout"
      [] kind = "ConnectionError" -> "Connection error"
      [] kind = "RequestException" -> "Request error"
      [] OTHER -> "uncaught"

\* The except clauses of scrape_article, in order: the error each one
\* records on the last attempt.
Handler(kind) ==
    CASE kind = "Timeout" -> "Request timeout"
      [] kind = "ConnectionError" -> "Connection error"
      [] kind = "RequestException" -> "Request error"
      [] OTHER -> "Unexpected error"

\* An answer of the target: a response with its status code and, for a 200,
\* the title its page holds, whether its bytes decode, and whether the
\* parser raises (building the soup, or extracting the content, after the
\* title).
Response(status_code, title, decodes, parse) ==
    [kind |-> "response", status_code |-> status_code, title |-> title,
     decodes |-> decodes, parse |-> parse]

\* A request that raises.
Raise(kind) == [Response(0, None, TRUE, "ok") EXCEPT !.kind = kind]

Targets ==
    { Response(403, None, TRUE, "ok"),
      Response(404, None, TRUE, "ok"),
      Response(500, None, TRUE, "ok"),
      Response(200, "T", TRUE, "ok"),
      Response(200, None, TRUE, "ok"),
      Response(200, "T", FALSE, "ok"),
      Response(200, "T", TRUE, "soup"),
      Response(200, "T", TRUE, "content") }
    \cup { Raise(kind) : kind \in Exceptions }

\* No call of scrape_article yet; `result` as scrape_article initialises it.
NoScrape ==
    [pc |-> "idle", max_retries |-> 0, attempt |-> 0,
     result |-> [url |-> None, title |-> None, content |-> None,
                 status |-> "unknown", error |-> None],
     requests |-> 0, sleeps |-> << >>, seen |-> << >>]

\* A failed result that always blames the attempt count.
FailedAsExceeded(c, error) ==
    [c EXCEPT !.pc = "returned", !.result.status = "failed",
              !.result.error = "Max retries exceeded"]

\* `return result` with status failed and the error given.
Failed(c, error) ==
    [c EXCEPT !.pc = "returned", !.result.status = "failed", !.result.error = error]

\* The code after the for loop.
Fallback(c) == Failed(c, "Max retries exceeded")

\* `continue`: the next value of range(max_retries), or the end of the loop.
Continue(c) ==
    IF c.attempt + 1 < c.max_retries
    THEN [c EXCEPT !.attempt = @ + 1]
    ELSE Fallback([c EXCEPT !.attempt = @ + 1])

\* An exception raised inside the try block: retried while an attempt is
\* left, recorded on the last one; an exception no clause catches leaves
\* scrape_article.
Caught(c, kind) ==
    IF Handler(kind) = "uncaught" THEN [c EXCEPT !.pc = "raised"]
    ELSE IF CanRetry(c.attempt, c.max_retries) THEN Continue(c)
    ELSE Failed(c, Handler(kind))

\* A 200 response: decoding falls back to response.text when it fails, so
\* the same page is parsed either way; then the title and the content are
\* extracted and the status follows from the title.
Parsed(c, response) ==
    LET titled == [c EXCEPT !.result.title = response.title]
        full == [titled EXCEPT !.result.content = "C"]
    IN  IF response.parse = "soup" THEN Caught(c, "Exception")
        ELSE IF response.parse = "content" THEN Caught(titled, "Exception")
        ELSE IF response.title # None
        THEN [full EXCEPT !.pc = "returned", !.result.status = "success"]
        ELSE [full EXCEPT !.pc = "returned", !.result.status = "partial",
                          !.result.error = "No title found"]

\* scrape_article(url, max_retries) up to its for loop.
ScrapeArticle(url, max_retries) ==
    /\ scrape.pc = "idle"
    /\ scrape' =
          LET c == [NoScrape EXCEPT !.max_retries = max_retries, !.result.url = url]
          IN  IF max_retries > 0 THEN [c EXCEPT !.pc = "loop"] ELSE Fallback(c)
    /\ UNCHANGED << others, store, cache, cacheEnabled, stats, work, faulty,
                    faults, queues, pool, loop, max_workers, submitted >>

\* One round of the for loop: the backoff sleep before every attempt but
\* the first, the request, and what the answer leads to.
Attempt(response) ==
    /\ scrape.pc = "loop"
    /\ LET c == [scrape EXCEPT
                    !.sleeps = IF scrape.attempt > 0
                               THEN Append(@, WaitTime(scrape.attempt)) ELSE @,
                    !.requests = @ + 1,
                    !.seen = Append(@, response)]
       IN  scrape' =
             IF response.kind # "response" THEN Caught(c, response.kind)
             ELSE IF RetryStatus(response.status_code)
                     /\ CanRetry(c.attempt, c.max_retries)
             THEN Continue(c)
             ELSE IF response.status_code # 200
             THEN Failed(c, HttpError(response.status_code))
             ELSE Parsed(c, response)
    /\ UNCHANGED << others, store, cache, cacheEnabled, stats, work, faulty,
                    faults, queues, pool, loop, max_workers, submitted >>

\* ------------------------------------------------------------ extraction

\* A str is the sequence of its characters.
Whitespace == { " " }

\* str.strip()
RECURSIVE Strip(_)
Strip(s) ==
    IF s = << >> THEN s
    ELSE IF Head(s) \in Whitespace THEN Strip(Tail(s))
    ELSE IF s[Len(s)] \in Whitespace THEN Strip(SubSeq(s, 1, Len(s) - 1))
    ELSE s

\* str.find(p, i - 1) + 1: the first position from i on at which p occurs
\* in s, 0 when there is none.
RECURSIVE Find(_, _, _)
Find(s, p, i) ==
    IF i + Len(p) - 1 > Len(s) THEN 0
    ELSE IF SubSeq(s, i, i + Len(p) - 1) = p THEN i
    ELSE Find(s, p, i + 1)

\* `p in s`
In(p, s) == Find(s, p, 1) # 0

\* str.split(sep)
RECURSIVE Split(_, _)
Split(s, sep) ==
    LET k == Find(s, sep, 1)
    IN  IF k = 0 THEN << s >>
        ELSE << SubSeq(s, 1, k - 1) >> \o Split(SubSeq(s, k + Len(sep), Len(s)), sep)

\* A choice of the first part, whatever its length.
FirstPart(parts) == parts[1]

\* max(parts, key=len): the first of the longest parts.
Longest(parts) ==
    LET i == CHOOSE i \in 1 .. Len(parts) :
                 /\ \A j \in 1 .. Len(parts) : Len(parts[j]) <= Len(parts[i])
                 /\ \A j \in 1 .. i - 1 : Len(parts[j]) < Len(parts[i])
    IN  parts[i]

\* The separators of a "Title | Site Name" pattern, in the order tried;
\* "em-dash" stands for the one character U+2014.
Separators ==
    << << " ", "|", " " >>, << " ", "-", " " >>,
       << " ", ":", ":", " " >>, << " ", "em-dash", " " >> >>

\* The title without its site name: the title is split at the first
\* separator of the list that occurs in it.
RECURSIVE CleanTitle(_, _)
CleanTitle(title, i) ==
    IF i > Len(Separators) THEN title
    ELSE IF In(Separators[i], title)
    THEN Strip(Longest(Split(title, Separators[i])))
    ELSE CleanTitle(title, i + 1)

\* str.lower() on the letters the navigation keywords are made of.
LowerChar(ch) ==
    CASE ch = "M" -> "m" [] ch = "E" -> "e" [] ch = "N" -> "n"
      [] ch = "U" -> "u" [] OTHER -> ch

Lower(s) == [i \in 1 .. Len(s) |-> LowerChar(s[i])]

\* The keywords of navigation and menu text among which "menu" is the one
\* the pages of the model can hold.
SkipKeywords == { << "m", "e", "n", "u" >> }

\* A text of n characters.
Text(n) == [i \in 1 .. n |-> "x"]

\* The shortest title kept is longer than this.
ShortTitle == 5

\* The shortest content kept is longer than this, and the longest returned.
ShortContent == 100

LongContent == 5000

\* The first text of a sequence of candidates that is long enough, as an
\* optional str: << >> is None, << s >> is the str s.
RECURSIVE FirstLong(_, _)
FirstLong(texts, short) ==
    IF texts = << >> THEN Nothing
    ELSE IF Len(Head(texts)) > short THEN Some(Head(texts))
    ELSE FirstLong(Tail(texts), short)

\* ' '.join(texts)
RECURSIVE Join(_)
Join(texts) ==
    IF texts = << >> THEN << >>
    ELSE IF Len(texts) = 1 THEN texts[1]
    ELSE texts[1] \o << " " >> \o Join(Tail(texts))

\* content[:5000]
Truncate(content) ==
    IF content = Nothing THEN Nothing
    ELSE Some(SubSeq(content[1], 1, IF Len(content[1]) < LongContent
                                    THEN Len(content[1]) ELSE LongContent))

\* A parsed page, as far as the two extractors look at it:
\*   metas       the content attributes of the og:title, twitter:title and
\*               title meta elements present, in that order ("" for an
\*               element without the attribute);
\*   h1s         the h1 elements in document order, each with its text,
\*               whether its class names one of the title classes, and the
\*               element it sits in ("header", "article", "entry-header" for
\*               a div of the header classes, "body" otherwise);
\*   title       the text of the title element, as an optional str;
\*   containers  the texts of the article element, the divs of the content
\*               classes, the divs whose class holds a content keyword, the
\*               elements of the content ids and the main element, in the
\*               order _extract_content looks for them;
\*   paragraphs  the texts of the p elements.
Soup(metas, h1s, title, containers, paragraphs) ==
    [metas |-> metas, h1s |-> h1s, title |-> title,
     containers |-> containers, paragraphs |-> paragraphs]

H1(text, titleClass, inside) ==
    [text |-> text, titleClass |-> titleClass, inside |-> inside]

\* The texts of the h1 elements that satisfy a test, in document order.
TextsOf(h1s) == [i \in 1 .. Len(h1s) |-> Strip(h1s[i].text)]

\* The first h1 inside an element of the kind given, if any.
FirstInside(h1s, inside) ==
    LET IsInside(h) == h.inside = inside
        found == TextsOf(SelectSeq(h1s, IsInside))
    IN  IF found = << >> THEN << >> ELSE << found[1] >>

\* _extract_title: the first non-empty meta title; else the h1 elements by
\* priority (title class, inside a header, inside the article, inside a
\* header div, anywhere unless it reads as navigation); else the title
\* element, cleaned of its site name.
ExtractTitleOf(soup) ==
    LET HasTitleClass(h) == h.titleClass
        NotNavigation(t) == \A k \in SkipKeywords : ~In(k, Lower(t))
        metas == [i \in 1 .. Len(soup.metas) |-> Strip(soup.metas[i])]
        meta == FirstLong(metas, 0)
        byPriority == TextsOf(SelectSeq(soup.h1s, HasTitleClass))
                      \o FirstInside(soup.h1s, "header")
                      \o FirstInside(soup.h1s, "article")
                      \o FirstInside(soup.h1s, "entry-header")
        h1 == FirstLong(byPriority, ShortTitle)
        all == TextsOf(soup.h1s)
        plain == SelectSeq(all, LAMBDA t : Len(t) > ShortTitle /\ NotNavigation(t))
        title == IF soup.title = Nothing THEN << >> ELSE Strip(soup.title[1])
    IN  IF meta # Nothing THEN meta
        ELSE IF h1 # Nothing THEN h1
        ELSE IF plain # << >> THEN Some(plain[1])
        ELSE IF Len(title) > ShortTitle THEN Some(CleanTitle(title, 1))
        ELSE Nothing

\* _extract_content: the first container whose text is long enough, else
\* the first 15 paragraphs joined, cut to 5000 characters.
ExtractContentOf(soup) ==
    LET stripped == [i \in 1 .. Len(soup.containers) |-> Strip(soup.containers[i])]
        n == IF Len(soup.paragraphs) < 15 THEN Len(soup.paragraphs) ELSE 15
        first == [i \in 1 .. n |-> Strip(soup.paragraphs[i])]
        joined == IF n = 0 THEN << >> ELSE << Join(first) >>
    IN  Truncate(FirstLong(stripped \o joined, ShortContent))

\* No page parsed yet.
NoExtract ==
    [pc |-> "idle", soup |-> Nothing, title |-> Nothing, content |-> Nothing]

\* title = self._extract_title(soup)
ExtractTitle ==
    /\ extract.pc = "soup"
    /\ extract' = [extract EXCEPT !.pc = "titled", !.title = ExtractTitleOf(extract.soup)]
    /\ UNCHANGED << store, cache, cacheEnabled, stats, work, faulty, faults,
                    queues, pool, loop, max_workers, submitted, scrape,
                    publisher, singletons >>

\* content = self._extract_content(soup)
ExtractContent ==
    /\ extract.pc = "titled"
    /\ extract' = [extract EXCEPT !.pc = "done", !.content = ExtractContentOf(extract.soup)]
    /\ UNCHANGED << store, cache, cacheEnabled, stats, work, faulty, faults,
                    queues, pool, loop, max_workers, submitted, scrape,
                    publisher, singletons >>

\* ------------------------------------------------------------- publisher

\* A url as urlparse splits it: scheme, netloc, path and fragment.
Url(scheme, netloc, path, fragment) ==
    [scheme |-> scheme, netloc |-> netloc, path |-> path, fragment |-> fragment]

\* str.lower() on the hosts of the model.
LowerHost(netloc) == IF netloc = "Site.org" THEN "site.org" ELSE netloc

\* str.rstrip('/') on the paths of the model.
RStripSlash(path) ==
    CASE path = "/a/" -> "/a"
      [] path = "/" -> ""
      [] OTHER -> path

\* URLNormalizer.normalize_url: http becomes https, the host is lowercased,
\* trailing slashes leave the path (an empty path is "/"), the fragment is
\* dropped.
NormalizeUrl(url) ==
    Url(IF url.scheme = "http" THEN "https" ELSE url.scheme,
        LowerHost(url.netloc),
        IF RStripSlash(url.path) = "" THEN "/" ELSE RStripSlash(url.path),
        "")

\* URLNormalizer.generate_url_hash
GenerateUrlHash(url) == Sha256(NormalizeUrl(url))

\* MetadataEnricher.is_duplicate
IsDuplicate(url_hash, seen_hashes) == url_hash \in seen_hashes

\* An article given to publish_single_article: its id, url and priority,
\* and whether it carries the `source` field the task is built from.
Article(id, url, priority, hasSource) ==
    [id |-> id, url |-> url, priority |-> priority, hasSource |-> hasSource]

\* The urls published: one page written two ways, which normalise to the
\* same url, and another page.
PublishedUrls ==
    { Url("http", "Site.org", "/a/", "top"),
      Url("https", "site.org", "/a", ""),
      Url("https", "site.org", "/b", "") }

Articles ==
    { Article(id, url, priority, hasSource) :
        id \in { "a1", "a2" }, url \in PublishedUrls,
        priority \in { "high", "LOW" }, hasSource \in BOOLEAN }

\* MetadataEnricher.enrich_metadata: the article with its url normalised,
\* the original url and the hash of the url.
EnrichMetadata(article) ==
    [id |-> article.id, url |-> NormalizeUrl(article.url),
     url_original |-> article.url, url_hash |-> GenerateUrlHash(article.url),
     priority |-> article.priority, hasSource |-> article.hasSource]

\* Config.get_queue_by_priority on the lowercased priority.
GetQueueByPriority(priority) ==
    CASE priority \in { "high", "HIGH" } -> "high"
      [] priority \in { "low", "LOW" } -> "low"
      [] OTHER -> "medium"

\* The task_data of publish_single_article.
TaskData(enriched_article) ==
    [article_id |-> enriched_article.id, url |-> enriched_article.url,
     url_original |-> enriched_article.url_original,
     url_hash |-> enriched_article.url_hash,
     priority |-> GetQueueByPriority(enriched_article.priority)]

\* RedisClient.push_to_queue: rpush at the tail of the list and True, or
\* False when the broker raises.
PushToQueue(qs, queue_name, data, fault) ==
    IF fault THEN [ok |-> FALSE, queues |-> qs]
    ELSE [ok |-> TRUE, queues |-> [qs EXCEPT ![queue_name] = Append(@, data)]]

\* A publisher on which nothing was published.
NoPublisher == [seen_hashes |-> { }, calls |-> << >>, faults |-> 0]

\* publish_single_article(article): enrich; a hash already seen returns
\* False; otherwise the hash is remembered, the task is built (an article
\* without `source` raises KeyError into the except clause, which returns
\* False) and pushed, and the result of the push is returned.
PublishSingleArticle(article) ==
    /\ Len(publisher.calls) < MaxPublished
    /\ \E fault \in (IF publisher.faults < MaxFaults THEN BOOLEAN ELSE { FALSE }) :
         LET enriched_article == EnrichMetadata(article)
             url_hash == enriched_article.url_hash
             queue_name == GetQueueByPriority(enriched_article.priority)
             pushed == PushToQueue(queues, queue_name,
                                   TaskData(enriched_article), fault)
             Called(outcome, result) ==
                 Append(publisher.calls,
                        [article |-> article, url_hash |-> url_hash,
                         outcome |-> outcome, result |-> result])
         IN  IF IsDuplicate(url_hash, publisher.seen_hashes)
             THEN /\ ~ fault
                  /\ publisher' = [publisher EXCEPT
                                      !.calls = Called("duplicate", FALSE)]
                  /\ UNCHANGED queues
             ELSE IF ~ article.hasSource
             THEN /\ ~ fault
                  /\ publisher' = [publisher EXCEPT
                                      !.seen_hashes = @ \cup { url_hash },
                                      !.calls = Called("raised", FALSE)]
                  /\ UNCHANGED queues
             ELSE /\ publisher' = [publisher EXCEPT
                                      !.seen_hashes = @ \cup { url_hash },
                                      !.faults = IF fault THEN @ + 1 ELSE @,
                                      !.calls = Called(IF pushed.ok THEN "pushed"
                                                       ELSE "push failed",
                                                       pushed.ok)]
                  /\ queues' = pushed.queues
    /\ UNCHANGED << store, cache, cacheEnabled, stats, work, faulty, faults,
                    pool, loop, max_workers, submitted, scrape, extract,
                    singletons >>

\* ------------------------------------------------------------ singletons

\* A lock that everybody who asks can take.
AcquirableAlways(lock) == TRUE

\* threading.Lock: _lock can be acquired when no thread holds it.
Acquirable(lock) == lock = 0

\* cls(*args) up to the lock: `if cls not in cls._instances`, read without
\* the lock; a class that has its instance returns it at once.  `locked`
\* records that the call went on to the lock.
BaseCall(cls, args) ==
    /\ Len(singletons.calls) < MaxConstructed
    /\ singletons' = [singletons EXCEPT !.calls = Append(@,
          IF singletons.instances[cls] # Nothing
          THEN [cls |-> cls, args |-> args, pc |-> "done", locked |-> FALSE,
                result |-> singletons.instances[cls][1]]
          ELSE [cls |-> cls, args |-> args, pc |-> "acquire", locked |-> TRUE,
                result |-> 0])]
    /\ UNCHANGED << store, cache, cacheEnabled, stats, work, faulty, faults,
                    queues, pool, loop, max_workers, submitted, scrape,
                    extract, publisher >>

\* `with cls._lock`
Acquire(c) ==
    /\ c \in 1 .. Len(singletons.calls)
    /\ singletons.calls[c].pc = "acquire"
    /\ Acquirable(singletons.lock)
    /\ singletons' = [singletons EXCEPT !.lock = c, !.calls[c].pc = "locked"]
    /\ UNCHANGED << store, cache, cacheEnabled, stats, work, faulty, faults,
                    queues, pool, loop, max_workers, submitted, scrape,
                    extract, publisher >>

\* The second `if cls not in cls._instances`, inside the lock.
Recheck(c) ==
    /\ c \in 1 .. Len(singletons.calls)
    /\ singletons.calls[c].pc = "locked"
    /\ singletons' = [singletons EXCEPT !.calls[c].pc =
          IF singletons.instances[singletons.calls[c].cls] # Nothing
          THEN "release" ELSE "create"]
    /\ UNCHANGED << store, cache, cacheEnabled, stats, work, faulty, faults,
                    queues, pool, loop, max_workers, submitted, scrape,
                    extract, publisher >>

\* instance = super().__call__(*args, **kwargs): a new object whose
\* __init__ runs with the arguments of this call; then the object is put
\* in _instances.  An __init__ that raises leaves the `with` block, which
\* releases the lock, and the call.
Create(c) ==
    /\ c \in 1 .. Len(singletons.calls)
    /\ singletons.calls[c].pc = "create"
    /\ LET call == singletons.calls[c]
           raised == { i \in 1 .. Len(singletons.created) :
                         ~ singletons.created[i].ok }
       IN  \E raises \in (IF call.cls = "RedisClient"
                             /\ Cardinality(raised) < MaxFaults
                          THEN BOOLEAN ELSE { FALSE }) :
             LET instance == Len(singletons.created) + 1
                 object == [cls |-> call.cls, args |-> call.args,
                            inits |-> 1, ok |-> ~ raises]
             IN  singletons' =
                   IF raises
                   THEN [singletons EXCEPT
                            !.created = Append(@, object),
                            !.lock = IF @ = c THEN 0 ELSE @,
                            !.calls[c].pc = "done",
                            !.calls[c].result = -1]
                   ELSE [singletons EXCEPT
                            !.created = Append(@, object),
                            !.instances[call.cls] = Some(instance),
                            !.calls[c].pc = "release"]
    /\ UNCHANGED << store, cache, cacheEnabled, stats, work, faulty, faults,
                    queues, pool, loop, max_workers, submitted, scrape,
                    extract, publisher >>

\* The end of the `with` block and `return cls._instances[cls]`.
Release(c) ==
    /\ c \in 1 .. Len(singletons.calls)
    /\ singletons.calls[c].pc = "release"
    /\ singletons' = [singletons EXCEPT
          !.lock = IF @ = c THEN 0 ELSE @,
          !.calls[c].pc = "done",
          !.calls[c].result = singletons.instances[singletons.calls[c].cls][1]]
    /\ UNCHANGED << store, cache, cacheEnabled, stats, work, faulty, faults,
                    queues, pool, loop, max_workers, submitted, scrape,
                    extract, publisher >>

\* ------------------------------------------------------------------ runs

\* A document another writer of the collection left behind, in any status
\* of the lifecycle.
SeedDocument(status, url_hash) ==
    [article_id |-> "a1", url |-> "u1", url_hash |-> url_hash,
     user_id |-> "alice", status |-> status,
     title |-> IF status = "completed" THEN "T" ELSE None,
     content |-> IF status = "completed" THEN "C" ELSE None,
     scrape_status |-> IF status = "completed" THEN "success"
                       ELSE IF status = "failed" THEN "failed" ELSE None]

InitStores ==
    { << >> } \cup
    { << SeedDocument(st, h) >> : st \in { "pending", "processing" },
                                  h \in { "h1", None } }

InitCommon ==
    /\ store \in InitStores
    /\ cache = [k \in CacheKeys |-> Nothing]
    /\ cacheEnabled \in BOOLEAN
    /\ stats = [processed |-> 0, successful |-> 0, failed |-> 0,
                duplicates |-> 0, cached |-> 0, concurrent_peak |-> 0]
    /\ work = << >>
    /\ pool = << >>
    /\ submitted = << >>
    /\ max_workers \in PoolSizes
    /\ scrape = NoScrape
    /\ extract = NoExtract
    /\ publisher = NoPublisher
    /\ singletons = NoBase

\* No run loop: tasks are handed to the pool from outside.
NoLoop ==
    /\ loop = [Idle EXCEPT !.pc = "none"]
    /\ queues = [q \in QueueSet |-> << >>]

\* A run in which no transport fails and every task can be encoded.
Init == InitCommon /\ NoLoop /\ faults = 0 /\ faulty = FALSE

\* A run in which transports may fail and tasks may be unencodable.
InitFaults ==
    InitCommon /\ NoLoop /\ faults = 0 /\ store = << >> /\ cacheEnabled
        /\ faulty = TRUE

\* The sequences over S of length at most n.
SeqsUpTo(S, n) == UNION { [1 .. k -> S] : k \in 0 .. n }

\* What the publisher has left in the three lists: at most MaxQueued
\* entries in all.
InitQueues ==
    { [q \in QueueSet |->
          [n \in 1 .. Len(kinds[q]) |->
              Entry(kinds[q][n].task, kinds[q][n].json, q, n)]] :
      kinds \in { ks \in [QueueSet -> SeqsUpTo(EntryKinds, MaxQueued)] :
                     Len(ks["high"]) + Len(ks["medium"]) + Len(ks["low"])
                         <= MaxQueued } }

\* A run of the queue consumer over the lists the publisher left: the
\* entries may be unencodable or undecodable, the transports work.
InitLoop ==
    /\ InitCommon
    /\ store = << >>
    /\ cacheEnabled
    /\ faulty = TRUE
    /\ faults = MaxFaults
    /\ loop = Idle
    /\ queues \in InitQueues

\* The steps of process_single_article before its statistics.
CallStep(d) ==
    \/ ShouldScrapeRedis(d)
    \/ ShouldScrapeMongo(d)
    \/ ShouldScrapeBackfill(d)
    \/ HitGetArticle(d)
    \/ HitUpdate(d)
    \/ HitRecheck(d)
    \/ HitInsert(d)
    \/ GetExisting(d)
    \/ StoreResult(d)
    \/ CacheResult(d)

WorkerStep(d) == CallStep(d) \/ StatStep(d)

\* The same calls with every _update_stats call taken apart into its read
\* and its write under stats_lock.
NextStats ==
    \/ \E t \in Tasks : Deliver(t)
    \/ \E d \in 1 .. MaxDeliveries : CallStep(d)
    \/ \E d \in 1 .. MaxDeliveries : LockAndRead(d)
    \/ \E d \in 1 .. MaxDeliveries : WriteAndUnlock(d)
    \/ \E k \in CacheKeys : Expire(k)

SpecStats == Init /\ [][NextStats]_vars

\* A caller of ArticleCache.should_scrape(url, url_hash, force), with or
\* without force.
ShouldScrapeCall(t, force) ==
    /\ loop.pc = "none"
    /\ Len(work) < MaxCalls
    /\ t.url # None
    /\ ~ t.poison
    /\ work' = Append(work, [NewWork(t) EXCEPT !.pc = "should_scrape",
                                               !.force = force])
    /\ UNCHANGED << others, scrape, store, cache, cacheEnabled, stats, faulty, faults, loopVars >>

\* The calls of should_scrape that have answered.
Answered == { d \in 1 .. Len(work) : work[d].pc \in { "hit_get", "get_article" } }

\* The store of a should_scrape run: empty, or one document in any status,
\* a completed one with its content included.
InitCache ==
    /\ store \in InitStores \cup { << SeedDocument("completed", "h1") >> }
    /\ cache = [k \in CacheKeys |-> Nothing]
    /\ cacheEnabled \in BOOLEAN
    /\ stats = [processed |-> 0, successful |-> 0, failed |-> 0,
                duplicates |-> 0, cached |-> 0, concurrent_peak |-> 0]
    /\ work = << >>
    /\ pool = << >>
    /\ submitted = << >>
    /\ max_workers \in PoolSizes
    /\ scrape = NoScrape
    /\ extract = NoExtract
    /\ publisher = NoPublisher
    /\ singletons = NoBase
    /\ NoLoop
    /\ faults = 0
    /\ faulty = FALSE

\* Calls of should_scrape alone, over a store and a cache that other calls
\* of should_scrape fill and the TTL empties.
NextCache ==
    \/ \E t \in Tasks, force \in BOOLEAN : ShouldScrapeCall(t, force)
    \/ \E d \in 1 .. MaxCalls : ShouldScrapeRedis(d)
    \/ \E d \in 1 .. MaxCalls : ShouldScrapeMongo(d)
    \/ \E d \in 1 .. MaxCalls : ShouldScrapeBackfill(d)
    \/ \E k \in CacheKeys : Expire(k)

SpecCache == InitCache /\ [][NextCache]_vars

\* The task whose url is scraped in the scraper specification.
ScrapedTask == Task("a1", "u1", "h1", "alice", FALSE)

\* The max_retries of a call that does not pass one.
DefaultMaxRetries == 3

\* process_single_article after its call scrape_article(url) has returned,
\* for a new article: article_data is built from the result and inserted.
StoreScraped ==
    /\ scrape.pc = "returned"
    /\ scrape.max_retries = DefaultMaxRetries
    /\ store' = InsertArticle(store,
                              Document(ArticleData(ScrapedTask, scrape.result)),
                              FALSE).store
    /\ scrape' = [scrape EXCEPT !.pc = "stored"]
    /\ UNCHANGED << others, cache, cacheEnabled, stats, work, faulty, faults,
                    queues, pool, loop, max_workers, submitted >>

\* One call of scrape_article for a task whose article is new.
InitScrape ==
    /\ InitCommon
    /\ NoLoop
    /\ store = << >>
    /\ cacheEnabled
    /\ max_workers = Min(PoolSizes)
    /\ faults = 0
    /\ faulty = FALSE

NextScrape ==
    \/ \E max_retries \in 0 .. MaxRetries : ScrapeArticle(ScrapedTask.url, max_retries)
    \/ \E response \in Targets : Attempt(response)
    \/ StoreScraped

SpecScrape == InitScrape /\ [][NextScrape]_vars

\* The title of the page "Foo | Bar News".
FooBarNews ==
    << "F", "o", "o", " ", "|", " ", "B", "a", "r", " ", "N", "e", "w",
       "s" >>

\* Title elements: some with a site name after one or two separators, one
\* of each length around the shortest title kept, and every text of 6 to
\* MaxTitleLen characters over a letter, the blank and the bar.
TitleTexts ==
    { FooBarNews,
      << "B", "r", "e", "a", "k", "i", "n", "g", " ", "-", " ", "F", "o",
       "o", " ", "|", " ", "S", "i", "t", "e" >>,
      << "H", "e", "a", "d", "l", "i", "n", "e", " ", ":", ":", " ", "S",
       "i", "t", "e" >>,
      << "a", "a", " ", "|", " ", "b", "b" >>,
      << "S", "h", "o", "r", "t" >>,
      << " ", "T", "i", "t", "l", "e", " " >> }
    \cup UNION { [1 .. n -> { "a", " ", "|" }] : n \in 6 .. MaxTitleLen }

\* The h1 elements of a page: none, a menu heading, a menu heading before
\* the headline, a headline in the article before one with a title class,
\* and a short heading in the header before a headline in a header div.
H1Lists ==
    LET menu == << "M", "a", "i", "n", " ", "M", "e", "n", "u" >>
        story == << "S", "t", "o", "r", "y", " ", "h", "e",
                 "a", "d", "l", "i", "n", "e" >>
        top == << "T", "o", "p", " ", "h", "e", "a", "d", "l", "i", "n", "e" >>
    IN  { << >>,
          << H1(menu, FALSE, "body") >>,
          << H1(menu, FALSE, "body"), H1(story, FALSE, "body") >>,
          << H1(story, FALSE, "article"), H1(top, TRUE, "body") >>,
          << H1(<< "S", "h", "o", "r", "t" >>, TRUE, "header"),
             H1(story, FALSE, "entry-header") >> }

MetaLists ==
    { << >>,
      << << >> >>,
      << << " ", " " >>, << "M", "e", "t", "a", " ", "t", "i", "t", "l", "e" >> >> }

ContainerLists ==
    { << >>, << Text(50) >>, << Text(50), Text(101) >>, << Text(5001) >> }

ParagraphLists ==
    { << >>,
      << Text(40), Text(40) >>,
      << Text(50), Text(50) >>,
      [i \in 1 .. 16 |-> Text(6)] }

\* The pages parsed: those that hold a title element and nothing else, and
\* those that combine meta elements, h1 elements, a title element,
\* containers and paragraphs.
Soups ==
    { Soup(<< >>, << >>, Some(t), << >>, << >>) : t \in TitleTexts }
    \cup { Soup(m, h, t, c, p) :
              m \in MetaLists, h \in H1Lists,
              t \in { Nothing, Some(FooBarNews), Some(<< "F", "o", "o" >>) },
              c \in ContainerLists, p \in ParagraphLists }

\* scrape_article has parsed a page: soup = BeautifulSoup(html_text, ...).
InitExtract ==
    /\ store = << >>
    /\ cache = [k \in CacheKeys |-> Nothing]
    /\ cacheEnabled = TRUE
    /\ stats = [processed |-> 0, successful |-> 0, failed |-> 0,
                duplicates |-> 0, cached |-> 0, concurrent_peak |-> 0]
    /\ work = << >>
    /\ pool = << >>
    /\ submitted = << >>
    /\ max_workers = Min(PoolSizes)
    /\ scrape = NoScrape
    /\ NoLoop
    /\ faults = 0
    /\ faulty = FALSE
    /\ publisher = NoPublisher
    /\ singletons = NoBase
    /\ extract \in { [NoExtract EXCEPT !.pc = "soup", !.soup = soup] : soup \in Soups }

NextExtract == ExtractTitle \/ ExtractContent

SpecExtract == InitExtract /\ [][NextExtract]_vars

\* A publisher and the broker's empty lists.
InitPublish ==
    /\ store = << >>
    /\ cache = [k \in CacheKeys |-> Nothing]
    /\ cacheEnabled = TRUE
    /\ stats = [processed |-> 0, successful |-> 0, failed |-> 0,
                duplicates |-> 0, cached |-> 0, concurrent_peak |-> 0]
    /\ work = << >>
    /\ pool = << >>
    /\ submitted = << >>
    /\ max_workers = Min(PoolSizes)
    /\ scrape = NoScrape
    /\ extract = NoExtract
    /\ NoLoop
    /\ faults = 0
    /\ faulty = FALSE
    /\ publisher = NoPublisher
    /\ singletons = NoBase

NextPublish == \E article \in Articles : PublishSingleArticle(article)

SpecPublish == InitPublish /\ [][NextPublish]_vars

\* Threads that call the constructors of the classes at any time.
InitBase ==
    /\ store = << >>
    /\ cache = [k \in CacheKeys |-> Nothing]
    /\ cacheEnabled = TRUE
    /\ stats = [processed |-> 0, successful |-> 0, failed |-> 0,
                duplicates |-> 0, cached |-> 0, concurrent_peak |-> 0]
    /\ work = << >>
    /\ pool = << >>
    /\ submitted = << >>
    /\ max_workers = Min(PoolSizes)
    /\ scrape = NoScrape
    /\ extract = NoExtract
    /\ NoLoop
    /\ faults = 0
    /\ faulty = FALSE
    /\ publisher = NoPublisher
    /\ singletons = NoBase

NextBase ==
    \/ \E cls \in Classes, args \in { "x", "y" } : BaseCall(cls, args)
    \/ \E c \in 1 .. MaxConstructed : Acquire(c)
    \/ \E c \in 1 .. MaxConstructed : Recheck(c)
    \/ \E c \in 1 .. MaxConstructed : Create(c)
    \/ \E c \in 1 .. MaxConstructed : Release(c)

SpecBase == InitBase /\ [][NextBase]_vars

Next ==
    \/ \E t \in Tasks : Deliver(t)
    \/ \E d \in 1 .. MaxDeliveries : WorkerStep(d)
    \/ \E k \in CacheKeys : Expire(k)

Spec == Init /\ [][Next]_vars

SpecFaults == InitFaults /\ [][Next]_vars

LoopStep ==
    \/ \E max_iterations \in Limits : Consume(max_iterations)
    \/ While
    \/ Drain
    \/ EmptyBatch
    \/ Dispatch
    \/ Wait
    \/ Interrupt
    \/ Return

NextLoop ==
    \/ LoopStep
    \/ Start
    \/ \E d \in 1 .. MaxQueued : WorkerStep(d)

SpecLoop == InitLoop /\ [][NextLoop]_vars

\* A run over queues that hold well-formed tasks only, in the high and the
\* low list.
InitLoopWellFormed ==
    /\ InitLoop
    /\ \A q \in QueueSet : \A i \in 1 .. Len(queues[q]) : queues[q][i].json
    /\ queues["medium"] = << >>

\* The steps the main thread takes by itself.
LoopProgress == While \/ Drain \/ EmptyBatch \/ Dispatch \/ Wait \/ Return

\* The main thread keeps running, the executor starts a submitted task when
\* a thread is free, and every call a worker makes returns. The call of
\* consume and the interrupt come from outside and are not forced.
Fairness ==
    /\ WF_vars(LoopProgress)
    /\ WF_vars(Start)
    /\ \A d \in 1 .. MaxQueued : WF_vars(WorkerStep(d))

SpecLoopFair == InitLoopWellFormed /\ [][NextLoop]_vars /\ Fairness

\* ------------------------------------------------------------------ claims

Done == { d \in 1 .. Len(work) : work[d].pc = "done" }

\* How often stat_name is in a call's log.
Times(log, stat_name) == Cardinality({ i \in 1 .. Len(log) : log[i] = stat_name })

RECURSIVE SumTimes(_, _)
SumTimes(d, stat_name) ==
    IF d = 0 THEN 0 ELSE Times(work[d].log, stat_name) + SumTimes(d - 1, stat_name)

\* Every counter is the number of increments the calls have made to it.
StatsAreLogged ==
    \A stat_name \in StatNames : stats[stat_name] = SumTimes(Len(work), stat_name)

\* C1: in any interleaving of workers, the store never holds two documents
\* with the same article_id nor two with the same url.
C1_UniqueArticles ==
    \A i, j \in 1 .. Len(store) :
        i # j => /\ store[i].article_id # store[j].article_id
                 /\ store[i].url # store[j].url

\* Two calls have both fetched the same url and both returned.
C1_Witness ==
    \E d, e \in Done :
        /\ d # e
        /\ work[d].task.url = work[e].task.url
        /\ work[d].fetches = 1
        /\ work[e].fetches = 1

\* The pairs (d, e) of calls on the same task where d fetched, stored and was
\* counted successful, and e began after d had returned and has returned.
Repeats ==
    { p \in Done \X Done :
        /\ work[p[1]].task = work[p[2]].task
        /\ p[1] \in work[p[2]].after
        /\ work[p[1]].fetches = 1
        /\ work[p[1]].log = << "successful", "processed" >> }

DocumentsOf(t) ==
    { i \in 1 .. Len(store) :
        store[i].article_id = t.article_id \/ store[i].url = t.url }

\* C2 as claimed: the second processing of a task whose first processing
\* succeeded leaves one document, fetches nothing and counts 'duplicates'.
C2_SecondIsDuplicate ==
    \A p \in Repeats :
        /\ Cardinality(DocumentsOf(work[p[2]].task)) = 1
        /\ work[p[2]].fetches = 0
        /\ Times(work[p[2]].log, "duplicates") = 1

\* C2 amended: the second processing leaves one document and fetches
\* nothing; it is counted 'cached' and 'successful' when the cache layer
\* answers for it (cache enabled, and the url in the volatile cache or the
\* task's url_hash in the store), and 'duplicates' only otherwise.
C2_SecondIsCachedOrDuplicate ==
    \A p \in Repeats :
        LET w == work[p[2]] IN
        /\ Cardinality(DocumentsOf(w.task)) = 1
        /\ w.fetches = 0
        /\ w.log = IF cacheEnabled /\ (w.sawCached \/ w.task.url_hash # None)
                   THEN << "cached", "successful", "processed" >>
                   ELSE << "duplicates", "processed" >>

\* A task was processed twice in sequence with the cache enabled.
C2_Witness == Repeats # { } /\ cacheEnabled

\* C3 as claimed: every call increments 'processed' once and exactly one of
\* 'successful' and 'failed' once.
C3_ProcessedAndOneResult ==
    /\ StatsAreLogged
    /\ \A d \in Done :
         /\ Times(work[d].log, "processed") = 1
         /\ Times(work[d].log, "successful") + Times(work[d].log, "failed") = 1

\* C4: a call that finds the cache enabled and holding an entry for its url
\* never calls the scraper and is counted 'cached'.
C4_CacheShortCircuit ==
    \A d \in 1 .. Len(work) :
        work[d].sawCached =>
            /\ work[d].fetches = 0
            /\ work[d].pc # "store"
            /\ d \in Done => Times(work[d].log, "cached") = 1
            /\ stats.cached >= Cardinality({ e \in Done : work[e].sawCached })

\* A call that found its url in the volatile cache has returned.
C4_Witness == \E d \in Done : work[d].sawCached

\* The rank of a list in the order pop_from_queues is given.
Rank(q) == CHOOSE i \in 1 .. Len(QueueNames) : QueueNames[i] = q

\* Entry x was pushed to a list of higher priority than y's, or to the same
\* list before y.
Before(x, y) ==
    \/ Rank(x.queue) < Rank(y.queue)
    \/ x.queue = y.queue /\ x.n < y.n

\* The entries decoded so far, in pop order: those submitted, then those of
\* the batch being drained.
Popped == [i \in 1 .. Len(submitted) |-> submitted[i].entry] \o loop.tasks

\* The tasks still in the lists.
Queued ==
    { e \in UNION { { queues[q][i] : i \in 1 .. Len(queues[q]) } : q \in QueueSet } :
        e.json }

\* C5: the tasks in the lists are popped in strict priority order and in push
\* order within a list (a popped task precedes every task popped later and
\* every task still queued), and the pool is handed them, and starts them,
\* in that order.
C5_PriorityThenFifo ==
    /\ \A i, j \in 1 .. Len(Popped) : i < j => Before(Popped[i], Popped[j])
    /\ \A i \in 1 .. Len(Popped) : \A e \in Queued : Before(Popped[i], e)
    /\ \A d \in 1 .. Len(work) : work[d].task = submitted[d].entry.task
    /\ \A i \in 1 .. Len(pool) :
           pool[i] = submitted[Len(submitted) - Len(pool) + i].entry

\* Three tasks have been submitted, two of them from one list and the third
\* from a list of lower priority.
C5_Witness ==
    /\ Len(submitted) = 3
    /\ submitted[1].entry.queue = submitted[2].entry.queue
    /\ submitted[3].entry.queue # submitted[2].entry.queue

C7_TerminalStatusKept ==
    [][\A i \in 1 .. Len(store) :
          store[i].status \in Terminal => store'[i].status = store[i].status]_vars

\* C8 as claimed, for a call that ran alone: a non-terminal document means a
\* fetch and an update, no document an insert, a terminal document no store
\* write at all.
C8_InsertUpdateOrSkip ==
    (Len(work) = 1 /\ 1 \in Done /\ work[1].task.url # None) =>
        LET w == work[1] IN
        /\ w.found \in { "pending", "processing" } =>
               w.fetches = 1 /\ w.storeCalls = << "update" >>
        /\ w.found = "absent" => w.storeCalls = << "insert" >>
        /\ w.found \in Terminal => w.storeCalls = << >>

\* The calls that take the step from this state to the next.
Acting == { d \in 1 .. Len(work) : work'[d] # work[d] }

\* C9 as claimed: a document keeps its user_id, and only the tasks of its
\* owner modify it.
C9_TenantIsolation ==
    [][\A i \in 1 .. Len(store) :
          store'[i] # store[i] =>
              /\ store'[i].user_id = store[i].user_id
              /\ \A d \in Acting : work[d].task.user_id = store[i].user_id]_vars

\* C10 as claimed: the run loop is left only on an interrupt, with
\* max_iterations tasks drawn, or in a bounded run with no task left in the
\* three lists.
C10_StopsOnlyWhenDue ==
    loop.pc \in { "exit", "stopped" } =>
        \/ loop.reason = "interrupt"
        \/ /\ loop.max_iterations # NoLimit
           /\ loop.iterations >= loop.max_iterations
        \/ /\ loop.max_iterations # NoLimit
           /\ Queued = { }

\* C11 as claimed: in a bounded run (max_iterations given, 0 included) the
\* tasks popped from the lists never outnumber max_iterations.
C11_PoppedWithinLimit ==
    loop.max_iterations # NoLimit =>
        /\ loop.iterations <= loop.max_iterations
        /\ Len(submitted) <= loop.max_iterations

BatchOf(b) == { i \in 1 .. Len(submitted) : submitted[i].batch = b }

\* What C12 says of every state: a batch holds between 1 and 2 x max_workers
\* tasks, everything popped has been submitted or is in the batch being
\* drained (unless an interrupt cut the run), and while the next batch is
\* being popped every task submitted before has completed.
BatchesAreBarriers ==
    /\ Len(loop.tasks) <= 2 * max_workers
    /\ \A b \in 1 .. loop.batches :
           /\ BatchOf(b) # { }
           /\ Cardinality(BatchOf(b)) <= 2 * max_workers
    /\ loop.reason # "interrupt" =>
           Len(submitted) + Len(loop.tasks) = loop.iterations
    /\ loop.pc = "wait" => loop.tasks = << >>
    /\ loop.pc \in { "while", "drain", "batch" } =>
           /\ pool = << >>
           /\ Len(work) = Len(submitted)
           /\ \A d \in 1 .. Len(work) : work[d].pc = "done"

\* What C12 says of every step: a drain goes on to another pop only after a
\* pop that returned a task.
DrainStopsAtEmptyPop ==
    (loop.pc = "drain" /\ loop'.pc = "drain") =>
        /\ Len(loop'.tasks) = Len(loop.tasks) + 1
        /\ queues' # queues

\* C12: in the parallel run loop a batch holds at most 2 x max_workers
\* tasks, a drain stops at the first empty pop, the whole batch is
\* submitted, and no task of the next batch is popped before every task of
\* the current batch has completed.
C12_BatchBarrier == [] BatchesAreBarriers /\ [][DrainStopsAtEmptyPop]_vars

\* Two batches were dispatched, the first one full (2 x max_workers tasks),
\* and the second is being waited for.
C12_Witness ==
    /\ loop.batches = 2
    /\ loop.pc = "wait"
    /\ Cardinality(BatchOf(1)) = 2 * max_workers
    /\ \A i \in BatchOf(1) : i <= Len(work) /\ work[i].pc = "done"

\* C13: a bounded run with max_iterations = M >= 1 over queues holding N
\* well-formed tasks terminates; when no interrupt cut it, it has dispatched
\* exactly min(N, M) tasks, each of them has been processed, whatever its
\* outcome, and the statistics reported are the final ones.
C13_BoundedRunCompletes ==
    /\ [] ((loop.pc = "stopped" /\ loop.max_iterations >= 1
                /\ loop.reason # "interrupt") =>
              /\ Len(submitted) =
                     Min({ Len(submitted) + Cardinality(Queued),
                           loop.max_iterations })
              /\ Len(work) = Len(submitted)
              /\ \A d \in 1 .. Len(work) : work[d].pc = "done"
              /\ stats.processed = Len(work)
              /\ loop.reported = Some(stats))
    /\ (loop.pc = "while" /\ loop.max_iterations >= 1) ~> (loop.pc = "stopped")

\* A bounded run over three tasks processed two, both failed, and stopped on
\* its limit.
C13_Witness ==
    /\ loop.pc = "stopped"
    /\ loop.reason = "max_iterations"
    /\ loop.max_iterations = 2
    /\ Cardinality(Queued) = 1
    /\ stats.failed = 2
    /\ loop.reported = Some(stats)

\* Once the interrupt has arrived nothing more is popped or submitted.
NoPopAfterInterrupt ==
    loop.reason = "interrupt" => /\ queues' = queues
                                 /\ submitted' = submitted

\* The statistics are logged once, when consume returns, and by then every
\* submitted task has been processed to its end.
LoggedAfterAllCompleted ==
    /\ loop.reported # << >> => loop.pc = "stopped"
    /\ loop.pc = "stopped" =>
           /\ pool = << >>
           /\ Len(work) = Len(submitted)
           /\ \A d \in 1 .. Len(work) : work[d].pc = "done"
           /\ loop.running = FALSE
           /\ loop.reported = Some(stats)

\* C14: after an interrupt during a parallel run no further task is popped,
\* every task already submitted runs to completion, and the final statistics
\* are logged after all of them have completed, when consume returns.
C14_InterruptDrainsPool ==
    /\ [][NoPopAfterInterrupt]_vars
    /\ [] LoggedAfterAllCompleted
    /\ (loop.reason = "interrupt") ~> (loop.pc = "stopped")

\* The interrupt has arrived while one submitted task is running and another
\* still waits for a thread.
C14_Witness ==
    /\ loop.reason = "interrupt"
    /\ loop.pc = "exit"
    /\ Running # { }
    /\ pool # << >>

\* C16: with workers completing concurrently no increment is lost: every
\* counter is the number of increments made to it, at most one thread holds
\* stats_lock, every read-modify-write happens while holding it, and the
\* holder is inside _update_stats, never in a fetch, store or cache call.
C16_NoLostIncrement ==
    /\ StatsAreLogged
    /\ Cardinality({ d \in 1 .. Len(work) : work[d].lock }) <= 1
    /\ \A d \in 1 .. Len(work) : work[d].lock <=> work[d].pc = "stats_write"

\* One worker is between its read and its write of a counter while the other
\* waits for the lock to increment the same counter.
C16_Witness ==
    /\ Len(work) = 2
    /\ work[1].pc = "stats_write"
    /\ work[2].pc = "stats"
    /\ Head(work[1].todo) = Head(work[2].todo)

\* C17: at every moment at most max_workers tasks are being processed; a
\* submitted task that finds no free thread waits in the executor, and the
\* tasks started are the first ones submitted, each started once.
C17_AtMostMaxWorkers ==
    /\ Cardinality(Running) <= max_workers
    /\ Len(work) + Len(pool) = Len(submitted)
    /\ \A d \in 1 .. Len(work) : work[d].task = submitted[d].entry.task

\* Both threads of a pool of two are busy and a third task of the batch
\* waits for one of them to finish.
C17_Witness ==
    /\ max_workers = 2
    /\ Cardinality(Running) = 2
    /\ pool # << >>

Max(S) == CHOOSE x \in S : \A y \in S : y <= x

\* min(batch size, max_workers) of batch b.
BusyIn(b) ==
    IF Cardinality(BatchOf(b)) < max_workers
    THEN Cardinality(BatchOf(b)) ELSE max_workers

\* concurrent_peak is the largest min(batch size, max_workers) among the
\* batches dispatched so far and is at most max_workers.
PeakIsMaxOverBatches ==
    /\ stats.concurrent_peak =
           Max({ 0 } \cup { BusyIn(b) : b \in 1 .. loop.batches })
    /\ stats.concurrent_peak <= max_workers

\* C18: after every batch dispatch concurrent_peak equals the maximum over
\* the batches dispatched so far of min(batch size, max_workers); it never
\* decreases and never exceeds max_workers.
C18_PeakOverBatches ==
    /\ [] PeakIsMaxOverBatches
    /\ [][stats'.concurrent_peak >= stats.concurrent_peak]_vars

\* A pool of one thread has been given a batch of two tasks and then a
\* second batch; the peak is 1.
C18_Witness ==
    /\ loop.batches = 2
    /\ max_workers = 1
    /\ Cardinality(BatchOf(1)) = 2
    /\ stats.concurrent_peak = 1

\* C19: a call of should_scrape that has answered says "scrape" with no
\* cache source, and without any lookup, when force is set or the cache is
\* disabled; otherwise "do not scrape" from redis on a volatile hit, the
\* store not consulted; "do not scrape" from mongodb on a volatile miss and
\* a document with the url_hash in the store; and "scrape" with no cache
\* source when both miss.
C19_ShouldScrapeAnswers ==
    \A d \in Answered :
        LET w == work[d] IN
        IF w.force \/ ~cacheEnabled
        THEN w.should_scrape /\ w.cache_source = None /\ w.lookups = << >>
        ELSE IF w.sawCached
        THEN /\ ~ w.should_scrape
             /\ w.cache_source = "redis"
             /\ w.lookups = << "redis" >>
        ELSE IF w.sawStored
        THEN /\ ~ w.should_scrape
             /\ w.cache_source = "mongodb"
             /\ w.lookups = << "redis", "mongodb" >>
        ELSE /\ w.should_scrape
             /\ w.cache_source = None
             /\ w.lookups = << "redis", "mongodb" >>

\* Three calls have answered over a cache that is enabled: a volatile hit, a
\* durable hit and a forced call.
C19_Witness ==
    /\ cacheEnabled
    /\ \E d \in Answered : work[d].force /\ work[d].should_scrape
    /\ \E d \in Answered : work[d].cache_source = "redis"
    /\ \E d \in Answered : work[d].cache_source = "mongodb"

\* A durable hit leaves an entry without content under the url's key.
BackfillLeavesEntry ==
    \A d \in 1 .. Len(work) :
        (work[d].pc = "backfill" /\ work'[d].pc = "hit_get") =>
            LET k == GenerateCacheKey(work[d].task.url) IN
            /\ work'[d].cache_source = "mongodb"
            /\ cache'[k] # Nothing
            /\ "content" \notin DOMAIN cache'[k][1]

\* An entry goes away only when its TTL runs out, not by any call's step.
OnlyExpiryRemoves ==
    \A k \in CacheKeys :
        (cache[k] # Nothing /\ cache'[k] = Nothing) => work' = work

\* A call that looks while the entry is there answers from redis.
EntryAnswers ==
    \A d \in 1 .. Len(work) :
        (/\ work[d].pc = "should_scrape"
         /\ ~ work[d].force
         /\ cache[GenerateCacheKey(work[d].task.url)] # Nothing
         /\ work'[d].pc # "should_scrape") =>
            /\ ~ work'[d].should_scrape
            /\ work'[d].cache_source = "redis"
            /\ work'[d].pc = "hit_get"

\* C20: after should_scrape answers from a durable hit, with the volatile
\* cache reachable, the cache holds an entry for that url, without body
\* content and subject to expiry, and until it expires a should_scrape for
\* the same url is a volatile hit.
C20_BackfillThenVolatileHit ==
    /\ [][BackfillLeavesEntry /\ OnlyExpiryRemoves /\ EntryAnswers]_vars
    /\ [] (\A k \in CacheKeys : cache[k] # Nothing => ENABLED Expire(k))

\* The first call answered from mongodb for a document that has content, and
\* the next call for the same url answered from redis.
C20_Witness ==
    /\ Len(store) = 1
    /\ store[1].content # None
    /\ Len(work) >= 2
    /\ work[1].cache_source = "mongodb"
    /\ work[2].cache_source = "redis"
    /\ work[2].task.url = work[1].task.url
    /\ work[2].pc = "hit_get"

\* A volatile read that fails while should_scrape looks: the call goes on
\* to the durable lookup exactly as after a miss, and nothing shared moves.
FailedReadIsMiss ==
    \A d \in 1 .. Len(work) :
        (work[d].pc = "should_scrape" /\ work'[d] # work[d] /\ faults' = faults + 1) =>
            /\ work'[d] = [work[d] EXCEPT
                              !.pc = "mongo_check",
                              !.lookups = << "redis" >>,
                              !.sawCached =
                                  cache[GenerateCacheKey(work[d].task.url)] # Nothing]
            /\ store' = store /\ cache' = cache /\ stats' = stats

\* A volatile write that fails, after a stored scrape or on a backfill: the
\* cache and the store are left alone and the call goes on to the outcome
\* the write's success would have given.
FailedWriteIsSkipped ==
    \A d \in 1 .. Len(work) :
        /\ (work[d].pc = "set_cache" /\ work'[d] # work[d] /\ faults' = faults + 1) =>
               /\ store' = store /\ cache' = cache /\ stats' = stats
               /\ ~ work'[d].raised
               /\ work'[d].pc = "stats"
               /\ work'[d].todo =
                      << IF work[d].scrape_result.status = "success"
                         THEN "successful" ELSE "failed", "processed" >>
        /\ (work[d].pc = "backfill" /\ work'[d] # work[d] /\ faults' = faults + 1) =>
               /\ store' = store /\ cache' = cache /\ stats' = stats
               /\ ~ work'[d].raised
               /\ work'[d].pc = "hit_get"
               /\ work'[d].cache_source = "mongodb"

\* C21: a failing volatile-cache read or write is swallowed: no exception
\* reaches the worker (only a task the store driver cannot encode raises),
\* a failed read leaves the call where a miss would, and a failed write
\* changes neither the store nor the statistics nor the call's outcome.
C21_CacheFailureSwallowed ==
    /\ [] (\A d \in 1 .. Len(work) : work[d].raised => work[d].task.poison)
    /\ [][FailedReadIsMiss /\ FailedWriteIsSkipped]_vars

\* A call found the url's entry in the cache, its read failed, and it went
\* on as after a miss and returned without raising.
C21_Witness ==
    \E d \in 1 .. Len(work) :
        /\ work[d].pc = "done"
        /\ work[d].sawCached
        /\ work[d].cache_source # "redis"
        /\ ~ work[d].raised
        /\ work[d].log # << >>

\* C22 as claimed: a cache entry is written only for a url just scraped
\* successfully and stored, or just found in the store.  While no call has
\* answered from the store, every entry was written after a scrape, so it
\* must be the entry of a successful scrape; and a call about to write the
\* cache after its scrape has scraped successfully.
C22_CachedOnlyAfterSuccess ==
    /\ \A d \in 1 .. Len(work) :
           (work[d].pc = "set_cache" /\ cacheEnabled) =>
               work[d].scrape_result.status = "success"
    /\ (\A d \in 1 .. Len(work) : work[d].cache_source # "mongodb") =>
           \A k \in CacheKeys :
               cache[k] # Nothing => cache[k][1].scrape_status = "success"

\* C23 as claimed: at every moment every url with an entry in the volatile
\* cache has a record with that url in the store.
C23_CacheBackedByStore ==
    \A u \in Urls :
        cache[GenerateCacheKey(u)] # Nothing =>
            \E i \in 1 .. Len(store) : store[i].url = u

\* The documents the consumer hands to insert_article.
InsertedDocuments ==
    { Document(ArticleData(t, r)) :
          t \in { x \in Tasks : x.url # None }, r \in ScrapeResults }
    \cup { CachedArticleData(t, Nothing) : t \in { x \in Tasks : x.url # None } }

\* C24: insert_article on a record whose article_id or url equals that of a
\* record of the store returns False and leaves every record of the store
\* as it was.
C24_InsertRejectsDuplicate ==
    \A doc \in InsertedDocuments :
        (\E i \in 1 .. Len(store) :
             store[i].article_id = doc.article_id \/ store[i].url = doc.url) =>
            InsertArticle(store, doc, FALSE) = [ok |-> FALSE, store |-> store]

\* A call scraped its url and its insert was refused because another record
\* already had the url: the call counted failed and the store still holds
\* that record alone.
C24_Witness ==
    \E d \in 1 .. Len(work) :
        /\ work[d].pc = "done"
        /\ work[d].storeCalls = << "insert" >>
        /\ work[d].fetches = 1
        /\ work[d].log = << "failed", "processed" >>
        /\ Len(store) = 1
        /\ store[1].url = work[d].task.url
        /\ store[1].article_id # work[d].task.article_id

\* scrape_article has returned.
Returned == scrape.pc \in { "returned", "stored" }

\* The last answer the target gave.
LastSeen == scrape.seen[Len(scrape.seen)]

\* The answers seen are exactly 403, 403 and a 200 page with a title, on a
\* call with max_retries = 3.
TwoRefusalsThenPage ==
    /\ Returned
    /\ scrape.max_retries = 3
    /\ scrape.seen = << Response(403, None, TRUE, "ok"),
                        Response(403, None, TRUE, "ok"),
                        Response(200, "T", TRUE, "ok") >>

\* C25: with max_retries = 3, a target that answers 403, 403 and then 200
\* with a title gives status success after exactly 3 requests, the call
\* having slept 2 seconds before the second and 4 seconds before the third.
C25_BackoffThenSuccess ==
    TwoRefusalsThenPage =>
        /\ scrape.result.status = "success"
        /\ scrape.result.title = "T"
        /\ scrape.requests = 3
        /\ scrape.sleeps = << 2, 4 >>

C25_Witness == TwoRefusalsThenPage /\ scrape.result.status = "success"

\* C26: scrape_article never makes more than max_retries requests, and a
\* target that times out on every attempt gives status failed after exactly
\* max_retries requests.
C26_AtMostMaxAttempts ==
    /\ scrape.requests <= scrape.max_retries
    /\ (/\ Returned
        /\ scrape.max_retries >= 1
        /\ \A i \in 1 .. Len(scrape.seen) : scrape.seen[i].kind = "Timeout") =>
           /\ scrape.result.status = "failed"
           /\ scrape.requests = scrape.max_retries

\* Three timeouts on a call with max_retries = 3.
C26_Witness ==
    /\ Returned
    /\ scrape.max_retries = 3
    /\ scrape.requests = 3
    /\ \A i \in 1 .. 3 : scrape.seen[i].kind = "Timeout"
    /\ scrape.result.status = "failed"

\* The last allowed attempt met a 403, a timeout or a connection failure.
RetryableOnLastAttempt ==
    /\ Returned
    /\ scrape.max_retries >= 1
    /\ scrape.requests = scrape.max_retries
    /\ \/ LastSeen.kind \in { "Timeout", "ConnectionError" }
       \/ LastSeen.kind = "response" /\ LastSeen.status_code = 403

\* C27 as claimed: a retryable error on the last allowed attempt gives
\* status failed with an error saying that the attempt count was exceeded.
C27_ErrorSaysExceeded ==
    RetryableOnLastAttempt =>
        /\ scrape.result.status = "failed"
        /\ scrape.result.error = "Max retries exceeded"

\* C27: a retryable error on the last allowed attempt gives status failed
\* with the error of that attempt: "HTTP 403", "Request timeout" or
\* "Connection error"; "Max retries exceeded" is the error of a call that
\* made no attempt.
C27_ErrorIsLastError ==
    /\ RetryableOnLastAttempt =>
           /\ scrape.result.status = "failed"
           /\ scrape.result.error =
                  IF LastSeen.kind = "response" THEN "HTTP 403"
                  ELSE IF LastSeen.kind = "Timeout" THEN "Request timeout"
                  ELSE "Connection error"
    /\ (Returned /\ scrape.result.error = "Max retries exceeded") =>
           scrape.requests = 0

\* Two 403 answers and a timeout on a call with max_retries = 3.
C27_Witness ==
    /\ RetryableOnLastAttempt
    /\ scrape.max_retries = 3
    /\ LastSeen.kind = "Timeout"
    /\ scrape.seen[1].status_code = 403
    /\ scrape.result.error = "Request timeout"

\* C28: an answer whose status is neither 200 nor 403 is the last one: the
\* call has returned failed with the error "HTTP <status>" and made no
\* request after it.
C28_OtherStatusIsTerminal ==
    \A i \in 1 .. Len(scrape.seen) :
        (scrape.seen[i].kind = "response"
            /\ scrape.seen[i].status_code \notin { 200, 403 }) =>
            /\ i = Len(scrape.seen)
            /\ scrape.requests = i
            /\ Returned
            /\ scrape.result.status = "failed"
            /\ scrape.result.error = HttpError(scrape.seen[i].status_code)

\* A 500 on the first of three attempts.
C28_Witness ==
    /\ Returned
    /\ scrape.max_retries = 3
    /\ scrape.requests = 1
    /\ LastSeen.status_code = 500
    /\ scrape.result.error = "HTTP 500"

\* The last answer was a 200 page that was parsed to the end.
PageParsed ==
    /\ scrape.seen # << >>
    /\ LastSeen.kind = "response"
    /\ LastSeen.status_code = 200
    /\ LastSeen.parse = "ok"

\* C29: the record stored on the scrape path is completed exactly when the
\* fetch ended with a 200 page from which a title was extracted (scrape
\* status success); a 200 page without a title gives scrape status partial
\* and a failed record; every other end of the fetch gives scrape status
\* failed and a failed record.
C29_StoredStatusFollowsScrape ==
    scrape.pc = "stored" =>
        /\ Len(store) = 1
        /\ store[1].scrape_status = scrape.result.status
        /\ store[1].status = "completed" <=> store[1].scrape_status = "success"
        /\ store[1].status \in { "completed", "failed" }
        /\ store[1].scrape_status =
               IF PageParsed /\ LastSeen.title # None THEN "success"
               ELSE IF PageParsed THEN "partial"
               ELSE "failed"

\* A page without a title was stored as a failed record with scrape status
\* partial.
C29_Witness ==
    /\ scrape.pc = "stored"
    /\ PageParsed
    /\ LastSeen.title = None
    /\ store[1].scrape_status = "partial"
    /\ store[1].status = "failed"

\* C30: scrape_article never raises, and the status of the result it
\* returns is success, partial or failed, for every max_retries >= 0 and
\* every answer or exception of the client, the decoder and the parser.
C30_NeverRaises ==
    /\ scrape.pc # "raised"
    /\ Returned => scrape.result.status \in { "success", "partial", "failed" }

\* The parser raised on the last attempt and the call returned failed with
\* "Unexpected error".
C30_Witness ==
    /\ Returned
    /\ scrape.seen # << >>
    /\ LastSeen.kind = "response"
    /\ LastSeen.parse = "content"
    /\ scrape.result.status = "failed"
    /\ scrape.result.error = "Unexpected error"

Foo == << "F", "o", "o" >>

BarNews == << "B", "a", "r", " ", "N", "e", "w", "s" >>

\* The page that holds the title element "Foo | Bar News" and nothing else
\* has been through both extractors.
FooBarNewsExtracted ==
    /\ extract.pc = "done"
    /\ extract.soup = Soup(<< >>, << >>, Some(FooBarNews), << >>, << >>)

\* The elements of a sequence.
Range(seq) == { seq[i] : i \in 1 .. Len(seq) }

\* C31 as claimed: a page that holds only the title element
\* "Foo | Bar News" gives the title "Foo" and the content None.
C31_TitleIsFoo ==
    FooBarNewsExtracted =>
        /\ extract.title = Some(Foo)
        /\ extract.content = Nothing

\* C31: a page that holds only the title element "Foo | Bar News" gives the
\* title "Bar News", the longest of the parts around the separator, and the
\* content None; and every page that holds only a title element longer
\* than 5 characters gives a title that is no shorter than any part of the
\* split at the first separator found, and the content None.
C31_TitleIsLongestPart ==
    /\ FooBarNewsExtracted =>
           /\ extract.title = Some(BarNews)
           /\ extract.content = Nothing
    /\ (/\ extract.pc = "done"
        /\ extract.soup.metas = << >>
        /\ extract.soup.h1s = << >>
        /\ extract.soup.containers = << >>
        /\ extract.soup.paragraphs = << >>) =>
           /\ extract.content = Nothing
           /\ \A i \in 1 .. Len(Separators) :
                  (/\ extract.soup.title # Nothing
                   /\ Len(Strip(extract.soup.title[1])) > ShortTitle
                   /\ In(Separators[i], Strip(extract.soup.title[1]))
                   /\ \A j \in 1 .. i - 1 :
                          ~In(Separators[j], Strip(extract.soup.title[1]))) =>
                      /\ extract.title # Nothing
                      /\ \E part \in Range(Split(Strip(extract.soup.title[1]),
                                                  Separators[i])) :
                             /\ extract.title[1] = Strip(part)
                             /\ \A other \in Range(Split(Strip(extract.soup.title[1]),
                                                         Separators[i])) :
                                    Len(other) <= Len(part)

C31_Witness == FooBarNewsExtracted /\ extract.title = Some(BarNews)

\* With every call returned, each processed task is counted once as
\* successful, failed or duplicate, and the cached ones are among the
\* successful.
StatsBalanced ==
    Running = { } =>
        /\ stats.processed = stats.successful + stats.failed + stats.duplicates
        /\ stats.cached <= stats.successful

\* No step lowers a counter.
CountersNeverDecrease ==
    \A stat_name \in DOMAIN stats : stats'[stat_name] >= stats[stat_name]

\* C32: whenever no task is in flight, processed = successful + failed +
\* duplicates and cached <= successful, and no counter ever decreases.
C32_StatsBalance == []StatsBalanced /\ [][CountersNeverDecrease]_vars

\* Two calls have returned, one cached and one duplicate, and every kind of
\* counter but `failed` has moved.
C32_Witness ==
    /\ Running = { }
    /\ Len(work) = 2
    /\ stats.processed = 2
    /\ stats.cached = 1
    /\ stats.successful = 1
    /\ stats.duplicates = 1

\* The call d has just reached its outcome and the outcome counts
\* `successful`.
CountedSuccessful(d) ==
    /\ d <= Len(work)
    /\ work[d].pc # "stats"
    /\ work'[d].pc = "stats"
    /\ "successful" \in Range(work'[d].todo)

\* C33: whenever a task is counted successful, the cached-skip outcome
\* included, the store holds a record with the task's article_id in status
\* completed.
C33_SuccessfulIsStored ==
    [][\A d \in 1 .. Len(work') :
          CountedSuccessful(d) =>
              \E i \in 1 .. Len(store') :
                  /\ store'[i].article_id = work'[d].task.article_id
                  /\ store'[i].status = "completed"]_vars

\* C34: in every reachable state, every record with status completed has a
\* title.
C34_CompletedHasTitle ==
    \A i \in 1 .. Len(store) :
        store[i].status = "completed" => store[i].title # None

\* The calls d and e ran at the same time: neither had returned when the
\* other began.
Concurrent(d, e) == d \notin work[e].after /\ e \notin work[d].after

\* C35: when two workers process tasks for the same article_id at the same
\* time, the record written by the worker whose store write succeeded first
\* is not altered by a step of the other worker.
C35_FirstWriteKept ==
    [][\A d, e \in 1 .. Len(work) :
          (/\ d # e
           /\ work[d].task.article_id = work[e].task.article_id
           /\ Concurrent(d, e)
           /\ work[e].success
           /\ ~ work[d].success
           /\ work'[d] # work[d]) =>
              GetArticle(store', work[e].task.article_id, FALSE)
                  = GetArticle(store, work[e].task.article_id, FALSE)]_vars

\* The call d of should_scrape takes a step.
ShouldScrapeStep(d) == d <= Len(work) /\ work'[d] # work[d]

\* C36: no step of should_scrape modifies the store, and a step of
\* should_scrape modifies the cache only in a call that found the record in
\* the store and answers from it, and then only under the key of the
\* call's url; a call that is forced, finds the cache disabled, hits the
\* volatile cache or misses both leaves cache and store as they are.
C36_ShouldScrapeFrame ==
    [][\A d \in 1 .. Len(work) :
          ShouldScrapeStep(d) =>
              /\ store' = store
              /\ cache' # cache =>
                     /\ ~ work[d].force
                     /\ cacheEnabled
                     /\ work[d].sawStored
                     /\ ~ work'[d].should_scrape
                     /\ work'[d].cache_source = "mongodb"
                     /\ \A k \in CacheKeys :
                            cache'[k] # cache[k] =>
                                k = GenerateCacheKey(work[d].task.url)]_vars

\* Three calls have answered: one from the store, whose backfill is in the
\* cache, one from the volatile cache and one forced, the store being as
\* it was.
C36_Witness ==
    /\ Len(work) = 3
    /\ Answered = { 1, 2, 3 }
    /\ \E d \in Answered :
           /\ work[d].cache_source = "mongodb"
           /\ cache[GenerateCacheKey(work[d].task.url)] # Nothing
    /\ \E d \in Answered : work[d].cache_source = "redis"
    /\ \E d \in Answered : work[d].force
    /\ Len(store) = 1

\* C37: across any sequence of publish_single_article calls on one
\* publisher, seen_hashes holds exactly the url hashes of the tasks pushed
\* to a queue, and each url hash is pushed at most once.
C37_SeenIsPushed ==
    /\ publisher.seen_hashes =
           UNION { { queues[q][i].url_hash : i \in 1 .. Len(queues[q]) } :
                   q \in DOMAIN queues }
    /\ \A q1, q2 \in DOMAIN queues :
           \A i \in 1 .. Len(queues[q1]), j \in 1 .. Len(queues[q2]) :
               queues[q1][i].url_hash = queues[q2][j].url_hash =>
                   q1 = q2 /\ i = j


\* The constructor calls of a class that have returned an instance.
Yielded(cls) ==
    { c \in 1 .. Len(singletons.calls) :
        /\ singletons.calls[c].cls = cls
        /\ singletons.calls[c].pc = "done"
        /\ singletons.calls[c].result > 0 }

\* C38: for each class whose metaclass is Base, all constructor calls that
\* return, concurrent or not, return one and the same instance, which is
\* the only object of the class whose __init__ completed, whose __init__
\* ran exactly once, and which keeps the arguments of the call that created
\* it whatever arguments the later calls give.
C38_OneInstance ==
    \A cls \in Classes :
        /\ \A c1, c2 \in Yielded(cls) :
               singletons.calls[c1].result = singletons.calls[c2].result
        /\ Cardinality({ i \in 1 .. Len(singletons.created) :
                            /\ singletons.created[i].cls = cls
                            /\ singletons.created[i].ok }) <= 1
        /\ \A c \in Yielded(cls) :
               LET object == singletons.created[singletons.calls[c].result]
               IN  /\ singletons.instances[cls] = Some(singletons.calls[c].result)
                   /\ object.cls = cls
                   /\ object.ok
                   /\ object.inits = 1

\* Three calls of one class, all begun before the class had its instance
\* and so all gone through the lock, with different arguments, have
\* returned the object made with the arguments of one of them.
C38_Witness ==
    /\ Len(singletons.calls) = 3
    /\ Yielded("ArticleCache") = { 1, 2, 3 }
    /\ \A c \in 1 .. 3 : singletons.calls[c].locked
    /\ Len(singletons.created) = 1
    /\ \E c \in 1 .. 3 :
           singletons.calls[c].args # singletons.created[1].args

====
